---- MODULE Spec2Model ----
(***************************************************************************)
(* The resilient API-access layer of frontcli: the OAuth token source      *)
(* (internal/auth), the circuit breaker, the retrying transport and the    *)
(* request dispatch of the API client (internal/api).                      *)
(*                                                                         *)
(* Time is a discrete clock `now` counted in whole seconds.  Every         *)
(* component is exercised by its own specification (SpecToken, SpecCB,     *)
(* SpecRT, SpecClient, SpecLimiter, SpecSanitize, SpecLocks); the          *)
(* variables a specification does not use keep their initial value.        *)
(***************************************************************************)
EXTENDS Integers, Sequences, FiniteSets, TLC

VARIABLES
    now,            \* the wall clock, in seconds
    \* ---- auth.TokenSource ------------------------------------------------
    accessToken,    \* ts.accessToken: 0 is "", k > 0 the token of the k-th exchange
    accessExpiry,   \* ts.accessExpiry: 0 is the zero time.Time
    mu,             \* ts.mu: the caller holding it, or NoCaller
    store,          \* the keyring entry read by ts.store.GetToken
    tpc,            \* per caller: where its Token() call stands
    tret,           \* per caller: what its Token() call returned
    exchanges,      \* number of exchanges sent to the token endpoint
    tused,          \* per caller: the refresh credential its exchange carries
    \* history of the token source, read by the properties only
    tscope,         \* per caller: the call started in the current cold window
    trefreshed,     \* per caller: refresh() invocations made by the call
    xsince,         \* exchanges sent since the cache last turned cold
    wfail,          \* a refresh of the current cold window did not warm the cache
    invPending,     \* Invalidate() ran and no Token() has entered since: what it cleared
    tafterInv,      \* per caller: invPending as the call found it on entering
    tset            \* of the step the token source took last: whether an exchange
                    \* returned a new refresh credential in it, and the
                    \* store.SetToken call made in it

tokVars == <<accessToken, accessExpiry, mu, store, tpc, tret, exchanges, tused,
             tscope, trefreshed, xsince, wfail, invPending, tafterInv, tset>>

-----------------------------------------------------------------------------
(* Bounds of the model *)

NumCallers == 2
TokMaxTime == 2
MaxLifetime == 2

Callers == 1..NumCallers
NoCaller == 0

-----------------------------------------------------------------------------
(* auth.TokenSource *)

NoReturn == [kind |-> "none", token |-> 0, expiry |-> 0, err |-> "none"]
TokenReturn(t, e) == [kind |-> "token", token |-> t, expiry |-> e, err |-> "none"]
ErrorReturn(e) == [kind |-> "error", token |-> 0, expiry |-> 0, err |-> e]

NoInvalidate == [set |-> FALSE, token |-> 0, live |-> FALSE]
NoSetToken == [fresh |-> FALSE, called |-> FALSE, ok |-> FALSE, rt |-> 0]

\* The errors of refresh(): only the first two wrap or equal ErrNotAuthenticated.
RefreshErrors == {"notAuthenticated:store", "notAuthenticated",
                  "readCredentials", "refreshToken"}

\* ts.accessToken != "" && time.Now().Before(ts.accessExpiry)
CacheNonEmpty == accessToken # 0
CacheValid == accessToken # 0 /\ now < accessExpiry

\* ts.mu.Lock() returns only when nobody holds the mutex.
MuFreeAlways == TRUE
MuFree == mu = NoCaller

InFlight == {c \in Callers : tpc[c] = "refreshing"}

\* A caller invokes Token() and blocks on ts.mu.Lock().  Under SpecToken every
\* caller makes one call, so NumCallers bounds the number of Token() calls.
TokenCall(c) ==
    /\ tpc[c] = "idle"
    /\ tpc' = [tpc EXCEPT ![c] = "locking"]
    /\ tret' = [tret EXCEPT ![c] = NoReturn]
    /\ tscope' = [tscope EXCEPT ![c] = ~CacheValid]
    /\ trefreshed' = [trefreshed EXCEPT ![c] = 0]
    /\ tafterInv' = [tafterInv EXCEPT ![c] = NoInvalidate]
    /\ tset' = NoSetToken
    /\ UNCHANGED <<accessToken, accessExpiry, mu, store, exchanges, tused, xsince,
                   wfail, invPending>>

\* Token() under the lock, up to the point where refresh() sends the exchange:
\* the cached token is returned, or refresh() fails before the exchange, or the
\* exchange is sent and the lock stays held.
TokenEnter(c) ==
    /\ tpc[c] = "locking"
    /\ MuFree
    /\ tafterInv' = [tafterInv EXCEPT ![c] = invPending]
    /\ invPending' = NoInvalidate
    /\ IF CacheValid
       THEN /\ tret' = [tret EXCEPT ![c] = TokenReturn(accessToken, accessExpiry)]
            /\ tpc' = [tpc EXCEPT ![c] = "done"]
            /\ UNCHANGED <<mu, exchanges, tused, trefreshed, xsince, wfail>>
       ELSE /\ trefreshed' = [trefreshed EXCEPT ![c] = trefreshed[c] + 1]
            /\ \E credsOK \in BOOLEAN :
                 IF ~store.present \/ store.refreshToken = 0 \/ ~credsOK
                 THEN /\ tret' = [tret EXCEPT ![c] = ErrorReturn(
                                   IF ~store.present THEN "notAuthenticated:store"
                                   ELSE IF store.refreshToken = 0 THEN "notAuthenticated"
                                   ELSE "readCredentials")]
                      /\ tpc' = [tpc EXCEPT ![c] = "done"]
                      /\ wfail' = TRUE
                      /\ UNCHANGED <<mu, exchanges, tused, xsince>>
                 ELSE /\ exchanges' = exchanges + 1
                      /\ xsince' = xsince + 1
                      /\ mu' = c
                      /\ tused' = [tused EXCEPT ![c] = store.refreshToken]
                      /\ tpc' = [tpc EXCEPT ![c] = "refreshing"]
                      /\ UNCHANGED <<tret, wfail>>
    /\ tset' = NoSetToken
    /\ UNCHANGED <<accessToken, accessExpiry, store, tscope>>

\* The exchange of refresh() answers: the new token is cached and a rotated
\* refresh credential is written back (a failed write is only a warning), or
\* the exchange fails (the 30 s timeout included).  The lock is released.
\* The token endpoint grants a lifetime of L (0: no expiry is set) and a refresh
\* credential of R (0: none).
\* newTok.RefreshToken != "" && newTok.RefreshToken != tok.RefreshToken
RotatedOrSame(newRT, used) == newRT # 0
Rotated(newRT, used) == newRT # 0 /\ newRT # used

TokenRefreshDone(c, L, R) ==
    /\ tpc[c] = "refreshing"
    /\ mu' = IF mu = c THEN NoCaller ELSE mu
    /\ tpc' = [tpc EXCEPT ![c] = "done"]
    /\ tused' = [tused EXCEPT ![c] = 0]
    /\ \/ \E life \in L, newRT \in R, setOK \in BOOLEAN :
            LET expiry == IF life = 0 THEN 0 ELSE now + life IN
            /\ accessToken' = exchanges
            /\ accessExpiry' = expiry
            /\ tret' = [tret EXCEPT ![c] = TokenReturn(exchanges, expiry)]
            /\ store' = IF Rotated(newRT, tused[c]) /\ setOK
                        THEN [present |-> TRUE, refreshToken |-> newRT]
                        ELSE store
            /\ tset' = [fresh |-> newRT \notin {0, tused[c]},
                         called |-> Rotated(newRT, tused[c]),
                         ok |-> Rotated(newRT, tused[c]) /\ setOK,
                         rt |-> IF Rotated(newRT, tused[c]) THEN newRT ELSE 0]
            /\ wfail' = (wfail \/ ~(now < expiry))
       \/ /\ tret' = [tret EXCEPT ![c] = ErrorReturn("refreshToken")]
          /\ wfail' = TRUE
          /\ tset' = NoSetToken
          /\ UNCHANGED <<accessToken, accessExpiry, store>>
    /\ UNCHANGED <<exchanges, tscope, trefreshed, xsince, invPending, tafterInv>>

\* The fields Invalidate() leaves behind.
InvalidateKeepsCache == [token |-> accessToken, expiry |-> accessExpiry]
InvalidateFields == [token |-> 0, expiry |-> 0]

\* Invalidate(): under the lock, clears the cached token and its expiry.
Invalidate ==
    /\ MuFree
    /\ accessToken' = InvalidateFields.token
    /\ accessExpiry' = InvalidateFields.expiry
    /\ invPending' = [set |-> TRUE, token |-> accessToken, live |-> CacheValid]
    \* the cache turns cold: a new cold window starts
    /\ IF CacheValid
       THEN /\ tscope' = [c \in Callers |-> FALSE]
            /\ xsince' = 0
            /\ wfail' = FALSE
       ELSE UNCHANGED <<tscope, xsince, wfail>>
    /\ tset' = NoSetToken
    /\ UNCHANGED <<mu, store, tpc, tret, exchanges, tused, trefreshed,
                   tafterInv>>

\* One second passes; a cached token may expire.
TokTick ==
    /\ now < TokMaxTime
    /\ now' = now + 1
    /\ IF CacheValid /\ ~(now + 1 < accessExpiry)
       THEN /\ tscope' = [c \in Callers |-> FALSE]
            /\ xsince' = 0
            /\ wfail' = FALSE
       ELSE UNCHANGED <<tscope, xsince, wfail>>
    /\ tset' = NoSetToken
    /\ UNCHANGED <<accessToken, accessExpiry, mu, store, tpc, tret, exchanges, tused,
                   trefreshed, invPending, tafterInv>>

TokInit ==
    /\ accessToken = 0
    /\ accessExpiry = 0
    /\ mu = NoCaller
    /\ store \in {[present |-> FALSE, refreshToken |-> 0],
                  [present |-> TRUE, refreshToken |-> 0],
                  [present |-> TRUE, refreshToken |-> 1]}
    /\ tpc = [c \in Callers |-> "idle"]
    /\ tret = [c \in Callers |-> NoReturn]
    /\ exchanges = 0
    /\ tused = [c \in Callers |-> 0]
    /\ tscope = [c \in Callers |-> FALSE]
    /\ trefreshed = [c \in Callers |-> 0]
    /\ xsince = 0
    /\ wfail = FALSE
    /\ invPending = NoInvalidate
    /\ tafterInv = [c \in Callers |-> NoInvalidate]
    /\ tset = NoSetToken

-----------------------------------------------------------------------------
(* api.CircuitBreaker *)

VARIABLES
    failures,       \* cb.failures
    lastFailure,    \* cb.lastFailure, in seconds; 0 is the zero time.Time
    open,           \* cb.open
    \* history of the breaker, read by the properties only
    cbOp,           \* the breaker method called by the last step, "none" after a tick
    cbRet,          \* what that method returned (RecordSuccess returns nothing: FALSE)
    cbWas,          \* failures and open as they were before the last step
    cbRun           \* RecordFailure() calls since the breaker was last closed with 0 failures

cbVars == <<failures, lastFailure, open, cbOp, cbRet, cbWas, cbRun>>

CircuitBreakerThreshold == 5
CircuitBreakerResetTime == 30

\* Bounds of the breaker model
MaxFailures == 6
CBMaxTime == 32

\* cb.failures >= CircuitBreakerThreshold
ThresholdExceeded(n) == n > CircuitBreakerThreshold
ThresholdReached(n) == n >= CircuitBreakerThreshold

\* time.Since(cb.lastFailure) > CircuitBreakerResetTime
CooldownReached == now - lastFailure >= CircuitBreakerResetTime
CooldownElapsed == now - lastFailure > CircuitBreakerResetTime

\* RecordSuccess(): what it writes.
SuccessKeepsOpen == [failures |-> 0, open |-> open]
SuccessState == [failures |-> 0, open |-> FALSE]

\* RecordSuccess() on the breaker fields.
CBRecordSuccess ==
    /\ failures' = SuccessState.failures
    /\ open' = SuccessState.open
    /\ UNCHANGED lastFailure

\* RecordFailure() on the breaker fields, and its return value.
CBRecordFailure ==
    /\ failures' = failures + 1
    /\ lastFailure' = now
    /\ open' = IF ThresholdReached(failures + 1) THEN TRUE ELSE open
RecordFailureRet == ThresholdReached(failures + 1)

\* IsOpen() on the breaker fields, and its return value: a closed breaker says
\* false; an open one closes itself once the cooldown has elapsed.
CBIsOpenKeepsCount ==
    IF open /\ CooldownElapsed
    THEN /\ open' = FALSE
         /\ UNCHANGED <<failures, lastFailure>>
    ELSE UNCHANGED <<failures, lastFailure, open>>
CBIsOpen ==
    IF open /\ CooldownElapsed
    THEN /\ open' = FALSE
         /\ failures' = 0
         /\ UNCHANGED lastFailure
    ELSE UNCHANGED <<failures, lastFailure, open>>
IsOpenStale == open
IsOpenRet == open /\ ~CooldownElapsed

Was == [failures |-> failures, open |-> open]
AtRest(f, o) == f = 0 /\ ~o

RecordSuccess ==
    /\ CBRecordSuccess
    /\ cbOp' = "RecordSuccess"
    /\ cbRet' = FALSE
    /\ cbWas' = Was
    /\ cbRun' = 0

RecordFailure ==
    /\ failures < MaxFailures
    /\ CBRecordFailure
    /\ cbOp' = "RecordFailure"
    /\ cbRet' = RecordFailureRet
    /\ cbWas' = Was
    /\ cbRun' = cbRun + 1

IsOpen ==
    /\ CBIsOpen
    /\ cbOp' = "IsOpen"
    /\ cbRet' = IsOpenRet
    /\ cbWas' = Was
    /\ cbRun' = IF AtRest(failures', open') THEN 0 ELSE cbRun

\* One second passes.
CBTick ==
    /\ now < CBMaxTime
    /\ now' = now + 1
    /\ cbOp' = "none"
    /\ cbRet' = FALSE
    /\ cbWas' = Was
    /\ UNCHANGED <<failures, lastFailure, open, cbRun>>

CBInit ==
    /\ failures = 0
    /\ lastFailure = 0
    /\ open = FALSE
    /\ cbOp = "none"
    /\ cbRet = FALSE
    /\ cbWas = [failures |-> 0, open |-> FALSE]
    /\ cbRun = 0

-----------------------------------------------------------------------------
(* api.RetryTransport *)

VARIABLES
    req,            \* the request of the RoundTrip in progress: its Body and GetBody
    rtPc,           \* where the RoundTrip stands: idle, send, sleep429, sleep5xx, done
    retries429,     \* retries429 of the call
    retries5xx,     \* retries5xx of the call
    wakeAt,         \* when the timer of the sleep in progress fires
    rtResult,       \* what RoundTrip returned
    \* history of the transport, read by the properties only
    rtStatuses,     \* the status of every Base.RoundTrip of the call (0: it failed)
    rtFirstRA,      \* the Retry-After header of the first response of the call
    rtSendAt,       \* when the last Base.RoundTrip of the call was made
    rtBodies,       \* the bodies the underlying transport received during the call
    rtWas           \* the breaker and the clock as the call found them

rtHist == <<rtStatuses, rtFirstRA, rtSendAt, rtBodies>>
rtVars == <<req, rtPc, retries429, retries5xx, wakeAt, rtResult, rtHist, rtWas>>

breaker == <<failures, lastFailure, open>>
cbHist == <<cbOp, cbRet, cbWas, cbRun>>

MaxRateLimitRetries == 3
Max5xxRetries == 1
RateLimitBaseDelay == 1
ServerErrorRetryDelay == 2

\* The request body of the model
BodyData == <<1, 2>>

\* The Retry-After header of a response: absent, delta-seconds, or an HTTP date.
NoRetryAfter == [kind |-> "none", val |-> 0]
RetryAfters == {NoRetryAfter,
                [kind |-> "seconds", val |-> 2],
                [kind |-> "seconds", val |-> -1],
                [kind |-> "date", val |-> now + 2],
                [kind |-> "garbage", val |-> 0]}

\* The statuses the server answers with, by the classes RoundTrip tells apart.
RTStatuses == {200, 404, 429, 500}

NoRequest == [hasBody |-> FALSE, data |-> <<>>, pos |-> 0, getBody |-> FALSE,
              getFails |-> FALSE]

\* The request handed to RoundTrip: without a body, with a stream as body
\* (GetBody nil) or with a replayable body (GetBody set by the caller).
NewRequest(kind, fails) ==
    [hasBody |-> kind # "nil",
     data |-> IF kind = "nil" THEN <<>> ELSE BodyData,
     pos |-> 0,
     getBody |-> kind = "replayable",
     getFails |-> kind = "replayable" /\ fails]

\* What is left to read of req.Body.
Remaining(r) == IF r.hasBody THEN SubSeq(r.data, r.pos + 1, Len(r.data)) ELSE <<>>

\* ensureReplayableBody, when io.ReadAll succeeds: the rest of the stream is
\* buffered, GetBody is set and Body reads the buffer from its start.
EnsureReplayable(r) ==
    IF ~r.hasBody \/ r.getBody
    THEN r
    ELSE [r EXCEPT !.data = Remaining(r), !.pos = 0, !.getBody = TRUE]

\* The top of the loop: req.Body = req.GetBody() when GetBody is set.
KeepBody(r) == r
ResetBody(r) == IF r.getBody THEN [r EXCEPT !.pos = 0] ELSE r

NoResult == [kind |-> "none", status |-> 0, ra |-> NoRetryAfter, err |-> "none"]
RespResult(resp) == [kind |-> "response", status |-> resp.status, ra |-> resp.ra,
                     err |-> "none"]
ErrResult(e) == [kind |-> "error", status |-> 0, ra |-> NoRetryAfter, err |-> e]

\* calculateBackoff: the delays it can return (the jitter is a random choice).
BackoffIgnoresHeader(attempt, ra) ==
    LET baseDelay == RateLimitBaseDelay * (2 ^ attempt)
        jitterRange == baseDelay \div 2
    IN  IF jitterRange <= 0 THEN {baseDelay}
        ELSE {baseDelay + jitter : jitter \in 0..(jitterRange - 1)}
BackoffDelays(attempt, ra) ==
    IF ra.kind = "seconds"
    THEN {IF ra.val < 0 THEN 0 ELSE ra.val}
    ELSE IF ra.kind = "date"
    THEN {IF ra.val - now < 0 THEN 0 ELSE ra.val - now}
    ELSE IF RateLimitBaseDelay <= 0 THEN {0}
    ELSE LET baseDelay == RateLimitBaseDelay * (2 ^ attempt)
             jitterRange == baseDelay \div 2
         IN  IF baseDelay <= 0 THEN {0}
             ELSE IF jitterRange <= 0 THEN {baseDelay}
             ELSE {baseDelay + jitter : jitter \in 0..(jitterRange - 1)}

\* retries429 >= t.MaxRetries429
Retries429ExhaustedEarly == retries429 + 1 >= MaxRateLimitRetries
Retries429Exhausted == retries429 >= MaxRateLimitRetries

\* retries5xx >= t.MaxRetries5xx
Retries5xxExhaustedLate == retries5xx > Max5xxRetries
Retries5xxExhausted == retries5xx >= Max5xxRetries

\* resp.StatusCode >= 500
ClientOrServerError(status) == status >= 400
ServerError(status) == status >= 500

\* RoundTrip returns.
RTFinish(result) ==
    /\ rtResult' = result
    /\ rtPc' = "done"

\* t.sleep(ctx, d) followed by the increment of the retry counter: a delay
\* <= 0 returns at once, otherwise the call waits for the timer.
RTSleep(d, which) ==
    /\ rtResult' = rtResult
    /\ IF d <= 0
       THEN /\ rtPc' = "send"
            /\ retries429' = IF which = "sleep429" THEN retries429 + 1 ELSE retries429
            /\ retries5xx' = IF which = "sleep5xx" THEN retries5xx + 1 ELSE retries5xx
            /\ UNCHANGED wakeAt
       ELSE /\ rtPc' = which
            /\ wakeAt' = now + d
            /\ UNCHANGED <<retries429, retries5xx>>

\* The classification of a response in the loop of RoundTrip.
RTClassifyOneBudget(resp) ==
    IF resp.status < 400
    THEN /\ CBRecordSuccess
         /\ RTFinish(RespResult(resp))
         /\ UNCHANGED <<retries429, retries5xx, wakeAt>>
    ELSE IF resp.status = 429
    THEN /\ UNCHANGED breaker
         /\ IF Retries429Exhausted
            THEN /\ RTFinish(RespResult(resp))
                 /\ UNCHANGED <<retries429, retries5xx, wakeAt>>
            ELSE \E d \in BackoffDelays(retries429, resp.ra) : RTSleep(d, "sleep429")
    ELSE IF ServerError(resp.status)
    THEN /\ CBRecordFailure
         /\ IF Retries429Exhausted
            THEN /\ RTFinish(RespResult(resp))
                 /\ UNCHANGED <<retries429, retries5xx, wakeAt>>
            ELSE RTSleep(ServerErrorRetryDelay, "sleep5xx")
    ELSE /\ UNCHANGED breaker
         /\ RTFinish(RespResult(resp))
         /\ UNCHANGED <<retries429, retries5xx, wakeAt>>
RTClassify(resp) ==
    IF resp.status < 400
    THEN /\ CBRecordSuccess
         /\ RTFinish(RespResult(resp))
         /\ UNCHANGED <<retries429, retries5xx, wakeAt>>
    ELSE IF resp.status = 429
    THEN /\ UNCHANGED breaker
         /\ IF Retries429Exhausted
            THEN /\ RTFinish(RespResult(resp))
                 /\ UNCHANGED <<retries429, retries5xx, wakeAt>>
            ELSE \E d \in BackoffDelays(retries429, resp.ra) : RTSleep(d, "sleep429")
    ELSE IF ServerError(resp.status)
    THEN /\ CBRecordFailure
         /\ IF Retries5xxExhausted
            THEN /\ RTFinish(RespResult(resp))
                 /\ UNCHANGED <<retries429, retries5xx, wakeAt>>
            ELSE RTSleep(ServerErrorRetryDelay, "sleep5xx")
    ELSE /\ UNCHANGED breaker
         /\ RTFinish(RespResult(resp))
         /\ UNCHANGED <<retries429, retries5xx, wakeAt>>

\* RoundTrip up to its loop: the breaker is asked once, then the body is made
\* replayable (io.ReadAll of a stream may fail).
RTBegin(kind, fails) ==
    /\ rtWas' = [failures |-> failures, lastFailure |-> lastFailure, open |-> open,
                 at |-> now]
    /\ CBIsOpen
    /\ rtStatuses' = <<>>
    /\ rtFirstRA' = NoRetryAfter
    /\ rtSendAt' = now
    /\ rtBodies' = {}
    /\ retries429' = 0
    /\ retries5xx' = 0
    /\ UNCHANGED wakeAt
    /\ IF IsOpenRet
       THEN /\ RTFinish(ErrResult("circuitBreaker"))
            /\ req' = NoRequest
       ELSE IF kind = "stream" /\ fails
       THEN /\ RTFinish(ErrResult("readBody"))
            /\ req' = [NewRequest(kind, fails) EXCEPT !.pos = Len(BodyData)]
       ELSE /\ rtPc' = "send"
            /\ rtResult' = NoResult
            /\ req' = EnsureReplayable(NewRequest(kind, fails))

\* A caller invokes RoundTrip.
RTCall(kind, fails) ==
    /\ rtPc = "idle"
    /\ RTBegin(kind, fails)

\* The caller takes what RoundTrip returned.  Only differences of clock
\* readings are ever used (time.Since, time.Until), so the origin of the clock
\* is moved to the present: `now` restarts at 0 and the time of the last failure
\* is shifted with it, no further back than the cooldown can tell apart.  A
\* closed breaker does not read lastFailure before RecordFailure overwrites it:
\* there the shift keeps "long ago".
LongAgo == 0 - (CircuitBreakerResetTime + 1)
Shifted(t) == IF ~open \/ t - now < LongAgo THEN LongAgo ELSE t - now

\* The caller is done with the call: nothing of it is kept.
RTClear ==
    /\ rtPc' = "idle"
    /\ req' = NoRequest
    /\ retries429' = 0
    /\ retries5xx' = 0
    /\ wakeAt' = 0
    /\ rtResult' = NoResult
    /\ rtStatuses' = <<>>
    /\ rtFirstRA' = NoRetryAfter
    /\ rtSendAt' = 0
    /\ rtBodies' = {}
    /\ rtWas' = [failures |-> 0, lastFailure |-> 0, open |-> FALSE, at |-> 0]
RTReturn ==
    /\ rtPc = "done"
    /\ RTClear
    /\ now' = 0
    /\ lastFailure' = Shifted(lastFailure)
    /\ UNCHANGED <<failures, open>>

\* if err != nil { return nil, fmt.Errorf("round trip: %w", err) }
RTSendFailedCounted ==
    /\ CBRecordFailure
    /\ RTFinish(ErrResult("roundTrip"))
    /\ UNCHANGED <<retries429, retries5xx, wakeAt>>
RTSendFailed ==
    /\ RTFinish(ErrResult("roundTrip"))
    /\ UNCHANGED <<breaker, retries429, retries5xx, wakeAt>>

\* One turn of the loop: the body is reset, the request is sent on the
\* underlying transport, which reads the body and fails or answers with a
\* status of S (a 429 with a Retry-After header of R), and the answer is
\* classified.
RTSend(S, R) ==
    /\ rtPc = "send"
    /\ UNCHANGED rtWas
    /\ IF req.getBody /\ req.getFails
       THEN /\ RTFinish(ErrResult("resetBody"))
            /\ UNCHANGED <<req, breaker, retries429, retries5xx, wakeAt, rtHist>>
       ELSE LET r == ResetBody(req)
                seen == Remaining(r) IN
              /\ req' = [r EXCEPT !.pos = r.pos + Len(seen)]
              /\ rtSendAt' = now
              /\ rtBodies' = rtBodies \cup {seen}
              /\ \/ /\ rtStatuses' = Append(rtStatuses, 0)
                    /\ UNCHANGED rtFirstRA
                    /\ RTSendFailed
                 \/ \E status \in S :
                    \E ra \in IF status = 429 THEN R ELSE {NoRetryAfter} :
                      /\ rtStatuses' = Append(rtStatuses, status)
                      /\ rtFirstRA' = IF rtStatuses = <<>> THEN ra ELSE rtFirstRA
                      /\ RTClassify([status |-> status, ra |-> ra])

\* The timer of the sleep fires: the retry counter is incremented and the loop
\* goes on.
RTWakeAsksBreaker ==
    /\ rtPc \in {"sleep429", "sleep5xx"}
    /\ now' = IF now < wakeAt THEN wakeAt ELSE now
    /\ IF open
       THEN RTFinish(ErrResult("circuitBreaker"))
       ELSE rtPc' = "send" /\ rtResult' = rtResult
    /\ retries429' = IF rtPc = "sleep429" THEN retries429 + 1 ELSE retries429
    /\ retries5xx' = IF rtPc = "sleep5xx" THEN retries5xx + 1 ELSE retries5xx
    /\ UNCHANGED <<req, breaker, wakeAt, rtHist, rtWas>>
RTWake ==
    /\ rtPc \in {"sleep429", "sleep5xx"}
    /\ now' = IF now < wakeAt THEN wakeAt ELSE now
    /\ rtPc' = "send"
    /\ retries429' = IF rtPc = "sleep429" THEN retries429 + 1 ELSE retries429
    /\ retries5xx' = IF rtPc = "sleep5xx" THEN retries5xx + 1 ELSE retries5xx
    /\ UNCHANGED <<req, breaker, wakeAt, rtResult, rtHist, rtWas>>

\* The request's context is cancelled during the sleep.
RTCancel ==
    /\ rtPc \in {"sleep429", "sleep5xx"}
    /\ RTFinish(ErrResult("sleepInterrupted"))
    /\ UNCHANGED <<req, breaker, retries429, retries5xx, wakeAt, rtHist, rtWas>>

\* Between two calls d seconds pass while the breaker is open, until the
\* cooldown is over; the origin of the clock follows, as in RTReturn.
RTIdle(d) ==
    /\ rtPc = "idle"
    /\ open
    /\ now - lastFailure <= CircuitBreakerResetTime
    /\ lastFailure' = IF lastFailure - d < LongAgo THEN LongAgo ELSE lastFailure - d
    /\ UNCHANGED <<now, failures, open, rtVars>>

RTInit ==
    /\ req = NoRequest
    /\ rtPc = "idle"
    /\ retries429 = 0
    /\ retries5xx = 0
    /\ wakeAt = 0
    /\ rtResult = NoResult
    /\ rtStatuses = <<>>
    /\ rtFirstRA = NoRetryAfter
    /\ rtSendAt = 0
    /\ rtBodies = {}
    /\ rtWas = [failures |-> 0, lastFailure |-> 0, open |-> FALSE, at |-> 0]

-----------------------------------------------------------------------------
(* Resource IDs (api.SanitizeID, api.ValidateIDPrefix) *)

\* An ID or a path is the sequence of its characters, each one its code point.
Underscore == 95
Space == 32
Slash == 47
Backslash == 92
Dot == 46
Del == 127
Nel == 133      \* U+0085, next line
Nbsp == 160     \* U+00A0, no-break space

ID_cnv == <<99, 110, 118, 95, 97>>      \* "cnv_a"
ID_msg == <<109, 115, 103, 95, 97>>     \* "msg_a"
ID_padded == <<32, 99, 110, 118, 95, 97, 10>>   \* " cnv_a\n"
ID_slash == <<97, 47, 98>>              \* "a/b"
ID_dots == <<97, 46, 46, 98>>           \* "a..b"
ID_blank == <<32>>                      \* " "
ID_inner == <<97, 32, 98>>              \* "a b"

IDs == {ID_cnv, ID_msg, ID_padded, ID_slash, ID_dots, ID_blank, ID_inner}

Path_ok == <<47, 120>>                  \* "/x"
Path_up == <<47, 46, 46, 47, 120>>      \* "/../x"
Path_ctl == <<47, 9, 120>>              \* "/\tx"

Paths == {Path_ok, Path_up, Path_ctl}

\* "/conversations/"
ConversationsPath == <<47, 99, 111, 110, 118, 101, 114, 115, 97, 116, 105, 111,
                       110, 115, 47>>

\* unicode.IsSpace on the characters of the model
IsSpace(ch) == ch \in {9, 10, 11, 12, 13, Space, Nel, Nbsp}

RECURSIVE TrimLeft(_)
TrimLeft(s) == IF s # <<>> /\ IsSpace(Head(s)) THEN TrimLeft(Tail(s)) ELSE s

RECURSIVE TrimRight(_)
TrimRight(s) ==
    IF s # <<>> /\ IsSpace(s[Len(s)]) THEN TrimRight(SubSeq(s, 1, Len(s) - 1)) ELSE s

\* strings.TrimSpace
TrimSpace(s) == TrimRight(TrimLeft(s))

\* strings.Contains(s, "..")
ContainsDotDot(s) == \E i \in 1..(Len(s) - 1) : s[i] = Dot /\ s[i + 1] = Dot

\* SanitizeID: the trimmed ID, or errInvalidID.
SanitizeID(id) ==
    LET t == TrimSpace(id)
        bad(ch) == \/ ch = Slash \/ ch = Backslash
                   \/ (ch = Dot /\ ContainsDotDot(t))
                   \/ ch <= Space \/ ch = Del
    IN  IF t = <<>> \/ \E i \in 1..Len(t) : bad(t[i])
        THEN [ok |-> FALSE, id |-> <<>>]
        ELSE [ok |-> TRUE, id |-> t]

\* ResourcePrefixes
ResourcePrefixes ==
    {[prefix |-> <<99, 110, 118, 95>>, name |-> "conversation"],
     [prefix |-> <<109, 115, 103, 95>>, name |-> "message"],
     [prefix |-> <<99, 109, 116, 95>>, name |-> "comment"],
     [prefix |-> <<116, 101, 97, 95>>, name |-> "teammate"],
     [prefix |-> <<116, 97, 103, 95>>, name |-> "tag"],
     [prefix |-> <<105, 110, 98, 95>>, name |-> "inbox"],
     [prefix |-> <<99, 104, 110, 95>>, name |-> "channel"],
     [prefix |-> <<99, 116, 99, 95>>, name |-> "contact"],
     [prefix |-> <<97, 99, 99, 95>>, name |-> "account"],
     [prefix |-> <<114, 117, 108, 95>>, name |-> "rule"],
     [prefix |-> <<108, 110, 107, 95>>, name |-> "link"],
     [prefix |-> <<115, 104, 102, 95>>, name |-> "shift"],
     [prefix |-> <<115, 105, 103, 95>>, name |-> "signature"],
     [prefix |-> <<101, 118, 116, 95>>, name |-> "event"],
     [prefix |-> <<100, 114, 102, 95>>, name |-> "draft"],
     [prefix |-> <<116, 111, 112, 95>>, name |-> "topic"]}

\* ResourcePrefixes[prefix]: "" for a prefix that is not in the map.
ResourceName(prefix) ==
    IF \E e \in ResourcePrefixes : e.prefix = prefix
    THEN (CHOOSE e \in ResourcePrefixes : e.prefix = prefix).name
    ELSE ""

\* ExtractPrefix: id[:idx+1] for the first "_" at idx <= 4 (counted from 0).
ExtractPrefix(id) ==
    IF Len(id) < 4 THEN <<>>
    ELSE IF ~\E i \in 1..Len(id) : id[i] = Underscore THEN <<>>
    ELSE LET idx == (CHOOSE i \in 1..Len(id) :
                        id[i] = Underscore /\ \A j \in 1..(i - 1) : id[j] # Underscore) - 1
         IN  IF idx > 4 THEN <<>> ELSE SubSeq(id, 1, idx + 1)

NoIDError == [wrong |-> FALSE, expected |-> "", actual |-> ""]

\* ValidateIDPrefix: nil, or the WrongResourceTypeError for a known prefix of
\* another resource type.
ValidateIDPrefix(id, expectedPrefix) ==
    LET actualPrefix == ExtractPrefix(id) IN
    IF actualPrefix = <<>> THEN NoIDError
    ELSE IF actualPrefix = expectedPrefix THEN NoIDError
    ELSE IF ResourceName(actualPrefix) = "" THEN NoIDError
    ELSE [wrong |-> TRUE, expected |-> ResourceName(expectedPrefix),
          actual |-> ResourceName(actualPrefix)]

\* validatePath: nil, or the error of a ".." or of a control character.
ValidatePathLax(path) == IF ContainsDotDot(path) THEN "pathTraversal" ELSE "nil"
ValidatePath(path) ==
    IF ContainsDotDot(path) THEN "pathTraversal"
    ELSE IF \E i \in 1..Len(path) : path[i] < Space \/ path[i] = Del
    THEN "pathInvalidChars"
    ELSE "nil"

\* SanitizeID called on an ID chosen by the caller, and then on its own result

VARIABLES
    sanPc,      \* "idle", "once" after SanitizeID(id), "twice" after the second call
    sanIn,      \* the ID handed to SanitizeID
    sanOut,     \* what SanitizeID(sanIn) returned
    sanTwice    \* what SanitizeID returned for its own result

sanVars == <<sanPc, sanIn, sanOut, sanTwice>>

\* The characters the IDs are made of: a letter, the underscore, the separators,
\* the dot, and white space and control characters inside and outside ASCII.
SanChars == {97, Underscore, Space, 9, Slash, Backslash, Dot, Del, Nbsp}

MaxIDLen == 3

SanInputs == UNION {[1..n -> SanChars] : n \in 0..MaxIDLen}

SanitizeCall(id) ==
    /\ sanPc = "idle"
    /\ sanPc' = "once"
    /\ sanIn' = id
    /\ sanOut' = SanitizeID(id)
    /\ UNCHANGED sanTwice

SanitizeAgain ==
    /\ sanPc = "once"
    /\ sanOut.ok
    /\ sanPc' = "twice"
    /\ sanTwice' = SanitizeID(sanOut.id)
    /\ UNCHANGED <<sanIn, sanOut>>

SanInit ==
    /\ sanPc = "idle"
    /\ sanIn = <<>>
    /\ sanOut = [ok |-> FALSE, id |-> <<>>]
    /\ sanTwice = [ok |-> FALSE, id |-> <<>>]

-----------------------------------------------------------------------------
(* api.RateLimiter *)

VARIABLES
    limit,          \* r.limit
    remaining,      \* r.remaining
    burstLimit,     \* r.burstLimit
    burstRemaining, \* r.burstRemaining
    resetAt         \* r.resetAt: set is FALSE for the zero time.Time

limiter == <<limit, remaining, burstLimit, burstRemaining, resetAt>>

ZeroTime == [set |-> FALSE, at |-> 0]
At(t) == [set |-> TRUE, at |-> t]

\* The value of a response header
Absent == [kind |-> "absent", val |-> 0]
IntValue(n) == [kind |-> "int", val |-> n]
DateValue(t) == [kind |-> "date", val |-> t]
Garbage == [kind |-> "garbage", val |-> 0]

NoHeaders == [limit |-> Absent, remaining |-> Absent, burstLimit |-> Absent,
              burstRemaining |-> Absent, reset |-> Absent]

\* The rate-limit headers a response carries: none; the window is used up and
\* resets in a second; credit left and a burst allowance; values that do not
\* parse.
HeaderSets ==
    {NoHeaders,
     [limit |-> IntValue(2), remaining |-> IntValue(1), burstLimit |-> Absent,
      burstRemaining |-> IntValue(0), reset |-> IntValue(now + 1)],
     [limit |-> IntValue(4), remaining |-> IntValue(1), burstLimit |-> IntValue(2),
      burstRemaining |-> IntValue(1), reset |-> DateValue(now + 2)],
     [limit |-> Garbage, remaining |-> Garbage, burstLimit |-> Garbage,
      burstRemaining |-> Garbage, reset |-> Garbage]}

\* headerInt
HeaderInt(v, fallback) == IF v.kind = "int" THEN v.val ELSE fallback

\* UpdateFromHeaders: the fields of the limiter after it.
UpdatedFromHeaders(h) ==
    [limit |-> HeaderInt(h.limit, limit),
     remaining |-> HeaderInt(h.remaining, remaining),
     burstLimit |-> HeaderInt(h.burstLimit, burstLimit),
     burstRemaining |-> HeaderInt(h.burstRemaining, burstRemaining),
     resetAt |-> IF h.reset.kind \in {"int", "date"} THEN At(h.reset.val) ELSE resetAt]

SetLimiter(l) ==
    /\ limit' = l.limit
    /\ remaining' = l.remaining
    /\ burstLimit' = l.burstLimit
    /\ burstRemaining' = l.burstRemaining
    /\ resetAt' = l.resetAt

UpdateFromHeaders(h) == SetLimiter(UpdatedFromHeaders(h))

\* The limiter when the origin of the clock is moved to the present: Wait reads
\* the reset instant only through time.Until, and every instant that is not in
\* the future gives the same result.
RebasedLimiter(l) ==
    [l EXCEPT !.resetAt = IF ~l.resetAt.set THEN ZeroTime
                          ELSE IF l.resetAt.at - now < 0 THEN At(0)
                          ELSE At(l.resetAt.at - now)]

\* if limit <= 0 || resetAt.IsZero()
UnprimedStrict == limit < 0 \/ ~resetAt.set
Unprimed == limit <= 0 \/ ~resetAt.set

\* sleepUntil: how long it sleeps (0: it returns at once).
SleepShort(t) == IF t - now <= 1 THEN 0 ELSE t - now - 1
SleepUntil(t) == IF t - now <= 0 THEN 0 ELSE t - now

\* extra: the burst credit Wait borrows, at most half the limit
BurstCreditUncapped(b, l) == IF b > 0 THEN b ELSE 0
BurstCredit(b, l) ==
    LET maxExtra == l \div 2
    IN  IF b > 0 THEN (IF b < maxExtra THEN b ELSE maxExtra) ELSE 0

\* Wait: how long it sleeps (0: it returns at once).
WaitDelay ==
    IF Unprimed THEN 0
    ELSE LET extra == BurstCredit(burstRemaining, limit)
             effectiveRemaining == remaining + extra
             until == resetAt.at - now
         IN  IF effectiveRemaining <= 1
             THEN SleepUntil(resetAt.at)
             ELSE LET interval == IF until >= 0
                                  THEN until \div effectiveRemaining
                                  ELSE 0 - ((0 - until) \div effectiveRemaining)
                  IN  IF interval <= 0 THEN 0 ELSE interval

LimiterInit ==
    /\ limit = 0
    /\ remaining = 0
    /\ burstLimit = 0
    /\ burstRemaining = 0
    /\ resetAt = ZeroTime

-----------------------------------------------------------------------------
(* api.Client *)

VARIABLES
    cpc,            \* where the call stands: idle, wait, waiting, token, tokenWait, do, done
    attempt,        \* attempt of the loop of do
    cop,            \* the operation called and the request do builds for it
    cret,           \* what the operation returned
    cWakeAt,        \* when the timer of the limiter's sleep fires
    \* history of the call, read by the properties only
    cSends,         \* per httpClient.Do of the call, the access token it carried
    cStatuses,      \* per response do received, its status
    cInval,         \* Invalidate() calls made by the call
    cWaits,         \* rateLimiter.Wait calls made by the call
    cTokCalls,      \* tokenSource.Token() calls made by the call
    cNet,           \* requests the call put on the network
    cFinal,         \* the response the result of the call was made from
    cWaitWas,       \* the limiter and the clock as the last Wait found them
    cWaitEnd        \* when the last Wait returned, NoTime while it sleeps

cWaitHist == <<cWaitWas, cWaitEnd>>
cHist == <<cSends, cStatuses, cInval, cWaits, cTokCalls, cNet, cFinal, cWaitHist>>
clVars == <<limiter, cpc, attempt, cop, cret, cWakeAt, cHist>>

\* The client is the one caller of its token source.
ClientCaller == 1

\* The statuses the server answers with, by the classes do tells apart.
ClientStatuses == {200, 204, 401, 404, 429, 500}

\* The Retry-After headers of its 429 answers, by the cases strconv.Atoi and
\* calculateBackoff tell apart.
ClientRetryAfters == {NoRetryAfter, [kind |-> "seconds", val |-> 2],
                      [kind |-> "garbage", val |-> 0]}

NoOp == [name |-> "none", id |-> <<>>, path |-> <<>>, hasBody |-> FALSE,
         hasOut |-> FALSE]

\* The operations of the model: GetConversation(id), Post(path, body, out),
\* Delete(path) and Download(path, w), where w may be nil.
Ops == {[name |-> "GetConversation", arg |-> id, w |-> FALSE] : id \in IDs}
         \cup {[name |-> n, arg |-> p, w |-> FALSE] :
                   n \in {"Post", "Delete"}, p \in Paths}
         \cup {[name |-> "Download", arg |-> p, w |-> w] :
                   p \in Paths, w \in BOOLEAN}

\* The bodies of the server's answers, as io.ReadAll delivers them: "" and "{}".
RespBodies == {<<>>, <<123, 125>>}

NoResponse == [status |-> 0, ra |-> NoRetryAfter, body |-> <<>>]

\* "token may be expired; try logging in again"
TokenMayBeExpired ==
    <<116, 111, 107, 101, 110, 32, 109, 97, 121, 32, 98, 101, 32, 101, 120,
      112, 105, 114, 101, 100, 59, 32, 116, 114, 121, 32, 108, 111, 103,
      103, 105, 110, 103, 32, 105, 110, 32, 97, 103, 97, 105, 110>>

\* http.StatusText
StatusText(status) ==
    CASE status = 400 -> "Bad Request"
      [] status = 403 -> "Forbidden"
      [] status = 404 -> "Not Found"
      [] status = 429 -> "Too Many Requests"
      [] status = 500 -> "Internal Server Error"
      [] status = 503 -> "Service Unavailable"
      [] OTHER -> ""

NoReturnYet == [kind |-> "none", status |-> 0, msg |-> "", details |-> <<>>,
                retryAfter |-> 0, cause |-> "none", resource |-> ""]
Success == [NoReturnYet EXCEPT !.kind = "ok"]
APIError(status, msg, details) ==
    [NoReturnYet EXCEPT !.kind = "APIError", !.status = status, !.msg = msg,
                        !.details = details]
RateLimitError(ra) == [NoReturnYet EXCEPT !.kind = "RateLimitError", !.retryAfter = ra]
AuthError(cause) == [NoReturnYet EXCEPT !.kind = "AuthError", !.cause = cause]
OtherError(kind, cause) == [NoReturnYet EXCEPT !.kind = kind, !.cause = cause]

\* enrichErrorWithContext, as GetConversation applies it to the error of Get
Enrich(r) ==
    IF cop.name = "GetConversation" /\ r.kind = "APIError"
    THEN [r EXCEPT !.resource = "conversation"]
    ELSE r

\* The operation returns.
Finish(r) ==
    /\ cret' = Enrich(r)
    /\ cpc' = "done"

\* strconv.Atoi of the Retry-After header, 0 when it is absent or no integer
AtoiRetryAfter(ra) == IF ra.kind = "seconds" THEN ra.val ELSE 0

\* for attempt := 0; attempt < 2; attempt++
MaxAttempts == 2

\* if attempt == 0 { continue }
RetryDisabled == FALSE
CanRetry == attempt = 0

\* An operation is called: the ID is sanitized and do checks the path.
DoCall(op) ==
    /\ cpc = "idle"
    /\ attempt' = 0
    /\ UNCHANGED <<limiter, cWakeAt, cHist>>
    /\ LET s == SanitizeID(op.arg)
           path == IF op.name = "GetConversation" THEN ConversationsPath \o s.id
                   ELSE op.arg
           request == [name |-> op.name,
                       id |-> IF op.name = "GetConversation" THEN s.id ELSE <<>>,
                       path |-> path,
                       hasBody |-> op.name = "Post",
                       hasOut |-> op.name \in {"GetConversation", "Post"}]
       IN  IF op.name = "GetConversation" /\ ~s.ok
           THEN /\ cop' = [NoOp EXCEPT !.name = op.name]
                /\ cret' = OtherError("invalidID", "errInvalidID")
                /\ cpc' = "done"
           ELSE IF op.name = "Download" /\ ~op.w
           THEN /\ cop' = request
                /\ cret' = OtherError("writerRequired", "errWriterRequired")
                /\ cpc' = "done"
           ELSE /\ cop' = request
                /\ IF ValidatePath(path) # "nil"
                   THEN /\ cret' = OtherError("unsafePath", ValidatePath(path))
                        /\ cpc' = "done"
                   ELSE /\ cret' = NoReturnYet
                        /\ cpc' = "wait"

NoTime == 0 - 1
NoWait == [limit |-> 0, remaining |-> 0, burstRemaining |-> 0, resetAt |-> ZeroTime,
           at |-> 0]

\* c.rateLimiter.Wait(ctx) is called: it returns at once or starts its timer.
LimiterWait ==
    /\ cpc = "wait"
    /\ cWaits' = cWaits + 1
    /\ cWaitWas' = [limit |-> limit, remaining |-> remaining,
                    burstRemaining |-> burstRemaining, resetAt |-> resetAt,
                    at |-> now]
    /\ IF WaitDelay = 0
       THEN cpc' = "token" /\ cWaitEnd' = now /\ UNCHANGED cWakeAt
       ELSE cpc' = "waiting" /\ cWaitEnd' = NoTime /\ cWakeAt' = now + WaitDelay
    /\ UNCHANGED <<limiter, attempt, cop, cret, cSends, cStatuses, cInval,
                   cTokCalls, cNet, cFinal>>

\* The timer of the limiter fires.
LimiterWake ==
    /\ cpc = "waiting"
    /\ now' = IF now < cWakeAt THEN cWakeAt ELSE now
    /\ cpc' = "token"
    /\ cWakeAt' = 0
    /\ cWaitEnd' = now'
    /\ UNCHANGED <<limiter, attempt, cop, cret, cSends, cStatuses, cInval, cWaits,
                   cTokCalls, cNet, cFinal, cWaitWas>>

\* fmt.Errorf("rate limit wait interrupted: %w", ctx.Err())
WaitCompleted == Success
WaitInterrupted == OtherError("waitInterrupted", "ctx")

\* The context is cancelled while the limiter sleeps: do returns the error.
LimiterCancel ==
    /\ cpc = "waiting"
    /\ Finish(WaitInterrupted)
    /\ cWaitEnd' = now
    /\ UNCHANGED <<limiter, attempt, cop, cWakeAt, cSends, cStatuses, cInval, cWaits,
                   cTokCalls, cNet, cFinal, cWaitWas>>

\* c.tokenSource.Token() is called.
ClientToken ==
    /\ cpc = "token"
    /\ TokenCall(ClientCaller)
    /\ cTokCalls' = cTokCalls + 1
    /\ cpc' = "tokenWait"
    /\ UNCHANGED <<limiter, attempt, cop, cret, cWakeAt, cSends, cStatuses, cInval,
                   cWaits, cNet, cFinal, cWaitHist>>

\* if err != nil, after c.tokenSource.Token()
TokenFailedNever == FALSE
TokenFailed == tret[ClientCaller].kind = "error"

\* Token() has returned: an error ends the call with an AuthError, a token is
\* put in the Authorization header and httpClient.Do enters RoundTrip.
ClientSend ==
    /\ cpc = "tokenWait"
    /\ tpc[ClientCaller] = "done"
    /\ tpc' = [tpc EXCEPT ![ClientCaller] = "idle"]
    /\ tret' = [tret EXCEPT ![ClientCaller] = NoReturn]
    /\ UNCHANGED <<accessToken, accessExpiry, mu, store, exchanges, tused,
                   tscope, trefreshed, xsince, wfail, invPending, tafterInv, tset>>
    /\ UNCHANGED <<limiter, attempt, cop, cWakeAt, cStatuses, cInval, cWaits,
                   cTokCalls, cNet, cFinal, cWaitHist, cbHist>>
    /\ IF TokenFailed
       THEN /\ Finish(AuthError(tret[ClientCaller].err))
            /\ UNCHANGED <<cSends, breaker, rtVars>>
       ELSE /\ cSends' = Append(cSends, tret[ClientCaller].token)
            /\ cpc' = "do"
            /\ cret' = cret
            /\ RTCall(IF cop.hasBody THEN "replayable" ELSE "nil", FALSE)

\* The result of do for a response other than 401.
GenericFirst(resp, decodeOK) ==
    IF resp.status >= 400
    THEN APIError(resp.status, StatusText(resp.status), resp.body)
    ELSE IF cop.hasOut /\ resp.status # 204 /\ ~decodeOK
    THEN OtherError("decodeResponse", "json")
    ELSE Success
StatusResult(resp, decodeOK) ==
    IF resp.status = 404 THEN APIError(404, "not found", <<>>)
    ELSE IF resp.status = 429 THEN RateLimitError(AtoiRetryAfter(resp.ra))
    ELSE IF resp.status >= 400
    THEN APIError(resp.status, StatusText(resp.status), resp.body)
    ELSE IF cop.hasOut /\ resp.status # 204 /\ ~decodeOK
    THEN OtherError("decodeResponse", "json")
    ELSE Success

\* The result of Download for a response other than 401: io.Copy to the
\* writer may fail.
DownloadResult(resp, copyOK) ==
    IF resp.status >= 400
    THEN APIError(resp.status, StatusText(resp.status), resp.body)
    ELSE IF ~copyOK THEN OtherError("downloadBody", "copy")
    ELSE Success

\* The token source when the origin of the clock is moved to the present: the
\* expiry is read only by time.Now().Before, and every expiry that is not in
\* the future gives the same result.
TokRebased ==
    /\ accessExpiry' = IF accessExpiry - now <= 0 THEN 0 ELSE accessExpiry - now
    /\ UNCHANGED <<accessToken, mu, store, tpc, tret, exchanges, tused, tscope,
                   trefreshed, xsince, wfail, invPending, tafterInv, tset>>

\* httpClient.Do has returned: an error ends the call; a response updates the
\* limiter and is mapped to the result; a 401 invalidates the token and, on the
\* first attempt, starts the loop again.  The origin of the clock is moved to
\* the present, as in RTReturn.
ClientResponse ==
    /\ cpc = "do"
    /\ rtPc = "done"
    /\ RTClear
    /\ now' = 0
    /\ lastFailure' = Shifted(lastFailure)
    /\ cWaitWas' = NoWait
    /\ cWaitEnd' = NoTime
    /\ UNCHANGED <<failures, open, cbHist, cop, cWakeAt, cSends, cWaits, cTokCalls,
                   cNet>>
    /\ IF rtResult.kind = "error"
       THEN /\ Finish(OtherError("doRequest", rtResult.err))
            /\ SetLimiter(RebasedLimiter(UpdatedFromHeaders(NoHeaders)))
            /\ TokRebased
            /\ UNCHANGED <<attempt, cStatuses, cInval, cFinal>>
       ELSE /\ cStatuses' = Append(cStatuses, rtResult.status)
            /\ \E h \in HeaderSets : SetLimiter(RebasedLimiter(UpdatedFromHeaders(h)))
            /\ IF rtResult.status = 401
               THEN /\ Invalidate
                    /\ cInval' = cInval + 1
                    /\ IF CanRetry
                       THEN /\ attempt' = attempt + 1
                            /\ IF attempt + 1 < MaxAttempts
                               THEN cpc' = "wait" /\ cret' = cret
                               ELSE Finish(APIError(401, "unauthorized",
                                                    TokenMayBeExpired))
                       ELSE /\ Finish(APIError(401, "unauthorized", TokenMayBeExpired))
                            /\ UNCHANGED attempt
                    /\ UNCHANGED cFinal
               ELSE /\ \E decodeOK \in BOOLEAN, body \in RespBodies :
                         LET resp == [status |-> rtResult.status, ra |-> rtResult.ra,
                                      body |-> body]
                         IN  /\ \/ decodeOK
                                \/ cop.hasOut /\ resp.status < 400 /\ resp.status # 204
                                \/ cop.name = "Download" /\ resp.status < 400
                             /\ Finish(IF cop.name = "Download"
                                       THEN DownloadResult(resp, decodeOK)
                                       ELSE StatusResult(resp, decodeOK))
                             /\ cFinal' = resp
                    /\ TokRebased
                    /\ UNCHANGED <<attempt, cInval>>

ClientInit ==
    /\ LimiterInit
    /\ cpc = "idle"
    /\ attempt = 0
    /\ cop = NoOp
    /\ cret = NoReturnYet
    /\ cWakeAt = 0
    /\ cSends = <<>>
    /\ cStatuses = <<>>
    /\ cInval = 0
    /\ cWaits = 0
    /\ cTokCalls = 0
    /\ cNet = 0
    /\ cFinal = NoResponse
    /\ cWaitWas = NoWait
    /\ cWaitEnd = NoTime

-----------------------------------------------------------------------------
(* The mutexes of the limiter (r.mu) and of the breaker (cb.mu) *)

\* Goroutines that share one limiter and one breaker call their methods and
\* RoundTrip concurrently.  Only the locking is kept of each method: where it
\* takes its mutex, where it touches the fields, where it releases the mutex,
\* and where it blocks on a timer or on the network.

VARIABLES
    rmu,        \* r.mu: the goroutine holding it, or NoCaller
    cbmu,       \* cb.mu: the goroutine holding it, or NoCaller
    lcall,      \* per goroutine: the method it is in, "none" outside
    lpc,        \* per goroutine: idle, lock, locked, send, recLock, recLocked, sleep
    lacc        \* the last access to the fields of the limiter ("rate") or of the
                \* breaker ("circuit"), and whether its goroutine held the mutex

lkVars == <<rmu, cbmu, lcall, lpc, lacc>>

NumProcs == 2
Procs == 1..NumProcs

RateMethods == {"Wait", "UpdateFromHeaders"}
CircuitMethods == {"IsOpen", "RecordSuccess", "RecordFailure"}

\* A goroutine calls a method of the limiter or of the breaker, or RoundTrip,
\* and reaches the Lock() on the first line of the method (for RoundTrip: of
\* the IsOpen() it starts with).
LockedCall(p, m) ==
    /\ lpc[p] = "idle"
    /\ lcall' = [lcall EXCEPT ![p] = m]
    /\ lpc' = [lpc EXCEPT ![p] = "lock"]
    /\ UNCHANGED <<rmu, cbmu, lacc>>

\* mu.Lock() returns: nobody held the mutex.
MutexLock(p) ==
    /\ lpc[p] = "lock"
    /\ IF lcall[p] \in RateMethods
       THEN rmu = NoCaller /\ rmu' = p /\ UNCHANGED cbmu
       ELSE cbmu = NoCaller /\ cbmu' = p /\ UNCHANGED rmu
    /\ lpc' = [lpc EXCEPT ![p] = "locked"]
    /\ UNCHANGED <<lcall, lacc>>

\* Wait copies the four fields and unlocks; then it returns or starts a timer.
WaitSnapshotDeferred(p) ==
    /\ lcall[p] = "Wait" /\ lpc[p] = "locked"
    /\ lacc' = [res |-> "rate", held |-> rmu = p]
    /\ \E sleeps \in BOOLEAN :
         /\ lpc' = [lpc EXCEPT ![p] = IF sleeps THEN "sleep" ELSE "idle"]
         /\ lcall' = [lcall EXCEPT ![p] = IF sleeps THEN "Wait" ELSE "none"]
         /\ rmu' = IF rmu = p /\ ~sleeps THEN NoCaller ELSE rmu
    /\ UNCHANGED cbmu
WaitSnapshot(p) ==
    /\ lcall[p] = "Wait" /\ lpc[p] = "locked"
    /\ lacc' = [res |-> "rate", held |-> rmu = p]
    /\ rmu' = IF rmu = p THEN NoCaller ELSE rmu
    /\ \E sleeps \in BOOLEAN :
         /\ lpc' = [lpc EXCEPT ![p] = IF sleeps THEN "sleep" ELSE "idle"]
         /\ lcall' = [lcall EXCEPT ![p] = IF sleeps THEN "Wait" ELSE "none"]
    /\ UNCHANGED cbmu

\* UpdateFromHeaders writes the fields and returns; the deferred Unlock() runs.
UpdateWrite(p) ==
    /\ lcall[p] = "UpdateFromHeaders" /\ lpc[p] = "locked"
    /\ lacc' = [res |-> "rate", held |-> rmu = p]
    /\ rmu' = IF rmu = p THEN NoCaller ELSE rmu
    /\ lpc' = [lpc EXCEPT ![p] = "idle"]
    /\ lcall' = [lcall EXCEPT ![p] = "none"]
    /\ UNCHANGED cbmu

\* IsOpen, RecordSuccess and RecordFailure read and write the fields and
\* return; the deferred Unlock() runs.
BreakerBody(p) ==
    /\ lcall[p] \in CircuitMethods /\ lpc[p] = "locked"
    /\ lacc' = [res |-> "circuit", held |-> cbmu = p]
    /\ cbmu' = IF cbmu = p THEN NoCaller ELSE cbmu
    /\ lpc' = [lpc EXCEPT ![p] = "idle"]
    /\ lcall' = [lcall EXCEPT ![p] = "none"]
    /\ UNCHANGED rmu

\* The IsOpen() of RoundTrip has the mutex: it returns true and RoundTrip
\* returns CircuitBreakerError, or false and the request is sent.
RoundTripIsOpen(p) ==
    /\ lcall[p] = "RoundTrip" /\ lpc[p] = "locked"
    /\ lacc' = [res |-> "circuit", held |-> cbmu = p]
    /\ cbmu' = IF cbmu = p THEN NoCaller ELSE cbmu
    /\ \E isOpen \in BOOLEAN :
         /\ lpc' = [lpc EXCEPT ![p] = IF isOpen THEN "idle" ELSE "send"]
         /\ lcall' = [lcall EXCEPT ![p] = IF isOpen THEN "none" ELSE "RoundTrip"]
    /\ UNCHANGED rmu

\* Base.RoundTrip returns: an error or a 4xx ends the call, a 429 starts the
\* backoff or is returned, a status below 400 or of 500 and more reaches the
\* Lock() of RecordSuccess or RecordFailure.
RoundTripResponse(p) ==
    /\ lcall[p] = "RoundTrip" /\ lpc[p] = "send"
    /\ \E next \in {"idle", "sleep", "recLock"} :
         /\ lpc' = [lpc EXCEPT ![p] = next]
         /\ lcall' = [lcall EXCEPT ![p] = IF next = "idle" THEN "none" ELSE "RoundTrip"]
    /\ UNCHANGED <<rmu, cbmu, lacc>>

\* The Lock() of RecordSuccess or RecordFailure in RoundTrip returns.
RoundTripRecLock(p) ==
    /\ lcall[p] = "RoundTrip" /\ lpc[p] = "recLock"
    /\ cbmu = NoCaller
    /\ cbmu' = p
    /\ lpc' = [lpc EXCEPT ![p] = "recLocked"]
    /\ UNCHANGED <<rmu, lcall, lacc>>

\* RecordSuccess or RecordFailure in RoundTrip writes the fields and returns:
\* RoundTrip returns the response, or sleeps before it retries a 5xx.
RoundTripRecord(p) ==
    /\ lcall[p] = "RoundTrip" /\ lpc[p] = "recLocked"
    /\ lacc' = [res |-> "circuit", held |-> cbmu = p]
    /\ cbmu' = IF cbmu = p THEN NoCaller ELSE cbmu
    /\ \E retry \in BOOLEAN :
         /\ lpc' = [lpc EXCEPT ![p] = IF retry THEN "sleep" ELSE "idle"]
         /\ lcall' = [lcall EXCEPT ![p] = IF retry THEN "RoundTrip" ELSE "none"]
    /\ UNCHANGED rmu

\* The select of a sleep returns: the timer has fired (Wait returns nil,
\* RoundTrip sends again) or the context is cancelled (both return the error).
SleepEnd(p) ==
    /\ lpc[p] = "sleep"
    /\ \E resend \in BOOLEAN :
         /\ resend => lcall[p] = "RoundTrip"
         /\ lpc' = [lpc EXCEPT ![p] = IF resend THEN "send" ELSE "idle"]
         /\ lcall' = [lcall EXCEPT ![p] = IF resend THEN "RoundTrip" ELSE "none"]
    /\ UNCHANGED <<rmu, cbmu, lacc>>

\* The steps of a goroutine that wait for neither a timer nor the network
MutexSteps(p) ==
    \/ MutexLock(p)
    \/ WaitSnapshot(p)
    \/ UpdateWrite(p)
    \/ BreakerBody(p)
    \/ RoundTripIsOpen(p)
    \/ RoundTripRecLock(p)
    \/ RoundTripRecord(p)

LocksInit ==
    /\ rmu = NoCaller
    /\ cbmu = NoCaller
    /\ lcall = [p \in Procs |-> "none"]
    /\ lpc = [p \in Procs |-> "idle"]
    /\ lacc = [res |-> "none", held |-> FALSE]

-----------------------------------------------------------------------------
(* The specifications *)

vars == <<now, tokVars, cbVars, rtVars, clVars, sanVars, lkVars>>

InitAll == now = 0 /\ TokInit /\ CBInit /\ RTInit /\ ClientInit /\ SanInit
           /\ LocksInit

InitToken == InitAll

NextToken ==
    \/ \E c \in Callers : TokenCall(c) /\ UNCHANGED <<now, cbVars, rtVars, clVars, sanVars, lkVars>>
    \/ \E c \in Callers : TokenEnter(c) /\ UNCHANGED <<now, cbVars, rtVars, clVars, sanVars, lkVars>>
    \/ \E c \in Callers : TokenRefreshDone(c, 0..MaxLifetime, 0..2) /\ UNCHANGED <<now, cbVars, rtVars, clVars, sanVars, lkVars>>
    \/ Invalidate /\ UNCHANGED <<now, cbVars, rtVars, clVars, sanVars, lkVars>>
    \/ TokTick /\ UNCHANGED <<cbVars, rtVars, clVars, sanVars, lkVars>>

SpecToken == InitToken /\ [][NextToken]_vars

\* The breaker alone: any interleaving of its three methods and of the clock.
\* The token source stays as constructed (its keyring entry is fixed).
InitCB == InitAll /\ store = [present |-> TRUE, refreshToken |-> 1]

NextCB ==
    \/ RecordSuccess /\ UNCHANGED <<now, tokVars, rtVars, clVars, sanVars, lkVars>>
    \/ RecordFailure /\ UNCHANGED <<now, tokVars, rtVars, clVars, sanVars, lkVars>>
    \/ IsOpen /\ UNCHANGED <<now, tokVars, rtVars, clVars, sanVars, lkVars>>
    \/ CBTick /\ UNCHANGED <<tokVars, rtVars, clVars, sanVars, lkVars>>

SpecCB == InitCB /\ [][NextCB]_vars

\* The retrying transport with its breaker: RoundTrip calls made one after the
\* other on a transport built by NewRetryTransport.
InitRT == InitAll /\ store = [present |-> TRUE, refreshToken |-> 1]

NextRT ==
    \/ \E kind \in {"nil", "stream", "replayable"}, fails \in BOOLEAN :
         /\ (kind = "nil" => ~fails)
         /\ RTCall(kind, fails)
         /\ UNCHANGED <<now, tokVars, cbHist, clVars, sanVars, lkVars>>
    \/ RTSend(RTStatuses, RetryAfters) /\ UNCHANGED <<now, tokVars, cbHist, clVars, sanVars, lkVars>>
    \/ RTWake /\ UNCHANGED <<tokVars, cbHist, clVars, sanVars, lkVars>>
    \/ RTCancel /\ UNCHANGED <<now, tokVars, cbHist, clVars, sanVars, lkVars>>
    \/ RTReturn /\ UNCHANGED <<tokVars, cbHist, clVars, sanVars, lkVars>>
    \/ \E d \in {1, CircuitBreakerResetTime} : RTIdle(d) /\ UNCHANGED <<tokVars, cbHist, clVars, sanVars, lkVars>>

SpecRT == InitRT /\ [][NextRT]_vars

\* The client: one operation, from its call to its return, on a client built by
\* NewClient around an auth.TokenSource.
InitClient == InitAll

NextClient ==
    \/ \E op \in Ops : DoCall(op) /\ UNCHANGED <<now, tokVars, cbVars, rtVars, sanVars, lkVars>>
    \/ LimiterWait /\ UNCHANGED <<now, tokVars, cbVars, rtVars, sanVars, lkVars>>
    \/ LimiterWake /\ UNCHANGED <<tokVars, cbVars, rtVars, sanVars, lkVars>>
    \/ LimiterCancel /\ UNCHANGED <<now, tokVars, cbVars, rtVars, sanVars, lkVars>>
    \/ ClientToken /\ UNCHANGED <<now, cbVars, rtVars, sanVars, lkVars>>
    \/ TokenEnter(ClientCaller) /\ UNCHANGED <<now, cbVars, rtVars, clVars, sanVars, lkVars>>
    \/ TokenRefreshDone(ClientCaller, {0, MaxLifetime}, {0}) /\ UNCHANGED <<now, cbVars, rtVars, clVars, sanVars, lkVars>>
    \/ ClientSend /\ UNCHANGED <<now, sanVars, lkVars>>
    \/ /\ RTSend(ClientStatuses, ClientRetryAfters)
       /\ cNet' = cNet + (Len(rtStatuses') - Len(rtStatuses))
       /\ UNCHANGED <<now, tokVars, cbHist, limiter, cpc, attempt, cop, cret, cWakeAt,
                      cSends, cStatuses, cInval, cWaits, cTokCalls, cFinal,
                      cWaitHist, sanVars, lkVars>>
    \/ RTWake /\ UNCHANGED <<tokVars, cbHist, clVars, sanVars, lkVars>>
    \/ RTCancel /\ UNCHANGED <<now, tokVars, cbHist, clVars, sanVars, lkVars>>
    \/ ClientResponse /\ UNCHANGED <<sanVars, lkVars>>

SpecClient == InitClient /\ [][NextClient]_vars


\* The limiter alone: callers invoke Wait one after the other while responses
\* of other requests update the limiter and the clock advances.
LimMaxTime == 3

\* The rate-limit headers of those responses
LimiterHeaders ==
    {[limit |-> l, remaining |-> rb[1], burstLimit |-> Absent,
      burstRemaining |-> rb[2], reset |-> t] :
        l \in {Absent, IntValue(0), IntValue(4)},
        rb \in {<<Absent, Absent>>, <<IntValue(1), IntValue(0)>>,
                <<IntValue(1), IntValue(3)>>, <<IntValue(3), IntValue(0 - 1)>>},
        t \in {Absent, IntValue(now + 2), DateValue(now + 3)}}

\* A caller invokes Wait, as do does at the top of its loop.
WaitCall ==
    /\ cpc \in {"idle", "token", "done"}
    /\ cpc' = "wait"
    /\ cret' = NoReturnYet
    /\ cWaits' = 0
    /\ UNCHANGED <<limiter, attempt, cop, cWakeAt, cSends, cStatuses, cInval,
                   cTokCalls, cNet, cFinal, cWaitHist>>

\* One second passes.
LimTick ==
    /\ now < LimMaxTime
    /\ now' = now + 1

InitLimiter == InitAll /\ store = [present |-> TRUE, refreshToken |-> 1]

NextLimiter ==
    \/ WaitCall /\ UNCHANGED <<now, tokVars, cbVars, rtVars, sanVars, lkVars>>
    \/ LimiterWait /\ UNCHANGED <<now, tokVars, cbVars, rtVars, sanVars, lkVars>>
    \/ LimiterWake /\ UNCHANGED <<tokVars, cbVars, rtVars, sanVars, lkVars>>
    \/ LimiterCancel /\ UNCHANGED <<now, tokVars, cbVars, rtVars, sanVars, lkVars>>
    \/ \E h \in LimiterHeaders :
         /\ now < LimMaxTime
         /\ UpdateFromHeaders(h)
         /\ UNCHANGED <<now, tokVars, cbVars, rtVars, cpc, attempt, cop, cret, cWakeAt,
                        cHist, sanVars, lkVars>>
    \/ LimTick /\ UNCHANGED <<tokVars, cbVars, rtVars, clVars, sanVars, lkVars>>

SpecLimiter == InitLimiter /\ [][NextLimiter]_vars

------------------------------------------------------------------------

\* SanitizeID alone: a caller hands it an ID and then hands it its own result.
NextSanitize ==
    \/ \E id \in SanInputs :
         SanitizeCall(id) /\ UNCHANGED <<now, tokVars, cbVars, rtVars, clVars, lkVars>>
    \/ SanitizeAgain /\ UNCHANGED <<now, tokVars, cbVars, rtVars, clVars, lkVars>>

SpecSanitize == InitAll /\ [][NextSanitize]_vars

------------------------------------------------------------------------

\* The mutexes alone: goroutines call the methods of one limiter and one
\* breaker, and RoundTrip, in any interleaving.  A goroutine that can take a
\* step other than the end of a sleep or of a send takes it in the end (a Go
\* mutex hands itself to a waiting goroutine); timers and the network owe
\* nothing.
MutexProgress(p) ==
    MutexSteps(p) /\ UNCHANGED <<now, tokVars, cbVars, rtVars, clVars, sanVars>>

NextLocks ==
    \/ \E p \in Procs, m \in RateMethods \cup CircuitMethods \cup {"RoundTrip"} :
         LockedCall(p, m) /\ UNCHANGED <<now, tokVars, cbVars, rtVars, clVars, sanVars>>
    \/ \E p \in Procs : MutexProgress(p)
    \/ \E p \in Procs :
         RoundTripResponse(p) /\ UNCHANGED <<now, tokVars, cbVars, rtVars, clVars, sanVars>>
    \/ \E p \in Procs :
         SleepEnd(p) /\ UNCHANGED <<now, tokVars, cbVars, rtVars, clVars, sanVars>>

InitLocks == InitAll /\ store = [present |-> TRUE, refreshToken |-> 1]

SpecLocks ==
    /\ InitLocks
    /\ [][NextLocks]_vars
    /\ \A p \in Procs : SF_vars(MutexProgress(p))

-----------------------------------------------------------------------------
(* Properties of the token source, checked under SpecToken *)

\* C1: concurrent Token() callers that start while the cache is cold, with a
\* refresh that succeeds with an expiry in the future (and no invalidation or
\* expiry in between), cause exactly one exchange with the token endpoint; at
\* most one refresh is in flight at any time; every such caller returns the
\* same access token, the one now cached.
C1_SingleFlightRefresh ==
    /\ Cardinality(InFlight) <= 1
    /\ ~wfail => xsince <= 1
    /\ \A c \in Callers :
         (tscope[c] /\ tpc[c] = "done" /\ ~wfail) =>
             /\ tret[c].kind = "token"
             /\ tret[c].token = accessToken
             /\ xsince = 1
    /\ \A c, d \in Callers :
         (tscope[c] /\ tscope[d] /\ tpc[c] = "done" /\ tpc[d] = "done" /\ ~wfail) =>
             tret[c] = tret[d]

\* Two callers that both started cold have both returned, after one exchange.
C1_Witness ==
    \E c, d \in Callers :
        /\ c # d
        /\ tscope[c] /\ tscope[d]
        /\ tpc[c] = "done" /\ tpc[d] = "done"
        /\ ~wfail
        /\ tret[c].kind = "token" /\ tret[d].kind = "token"
        /\ exchanges = 1

\* C2: the first Token() call to enter after Invalidate() invokes refresh()
\* exactly once, whatever expiry the cleared token had, and never returns the
\* token that Invalidate() cleared.
C2_InvalidateForcesRefresh ==
    \A c \in Callers :
        (tafterInv[c].set /\ tpc[c] \in {"refreshing", "done"}) =>
            /\ trefreshed[c] = 1
            /\ tret[c].kind = "token" => tret[c].token # tafterInv[c].token

\* A call that followed the invalidation of a still-valid token has returned
\* a token.
C2_Witness ==
    \E c \in Callers :
        /\ tafterInv[c].set /\ tafterInv[c].live
        /\ tpc[c] = "done"
        /\ tret[c].kind = "token"

\* C17: a successful exchange that yields a non-empty refresh credential other
\* than the one it used is followed by a write of that credential to the
\* keyring; whether or not the write succeeds, Token() returns the new access
\* token and the token is cached.  An exchange that yields no refresh
\* credential, or the one it used, is followed by no write and the keyring
\* entry stays as it is.
C17_RotationWritesStore ==
    [][\A c \in Callers :
         (tpc[c] = "refreshing" /\ tpc'[c] = "done" /\ tret'[c].kind = "token") =>
            /\ tret'[c].token # accessToken
            /\ accessToken' = tret'[c].token
            /\ accessExpiry' = tret'[c].expiry
            /\ tset'.called <=> tset'.fresh
            /\ tset'.called => tset'.rt \notin {0, tused[c]}
            /\ (tset'.called /\ tset'.ok) =>
                   store' = [present |-> TRUE, refreshToken |-> tset'.rt]
            /\ ~(tset'.called /\ tset'.ok) => store' = store]_vars

\* The exchange returned a new refresh credential, the write to the keyring
\* failed, and Token() returned the new access token, which is the cached one.
C17_Witness ==
    \E c \in Callers :
        /\ tpc[c] = "done"
        /\ tset.called
        /\ ~tset.ok
        /\ tset.rt # store.refreshToken
        /\ tret[c].kind = "token"
        /\ accessToken = tret[c].token

\* errors.Is(err, ErrNotAuthenticated): refresh() wraps ErrNotAuthenticated with
\* %w around the error of store.GetToken and returns it bare for an empty
\* refresh credential; its other two errors wrap only their own cause.
IsNotAuthenticated(err) == err \in {"notAuthenticated:store", "notAuthenticated"}

\* C15: every error Token() returns for a failed refresh (no keyring entry, an
\* empty refresh credential, unreadable client credentials, a failed exchange)
\* wraps or equals ErrNotAuthenticated.
C15_RefreshFailureIsNotAuthenticated ==
    \A c \in Callers :
        tret[c].kind = "error" => IsNotAuthenticated(tret[c].err)

\* C30: a Token() call that returns an error leaves the cached access token
\* and its expiry as they were when the call took the lock (and nobody else
\* changes them while the call holds it); nothing of the failure is kept: every
\* call that finds the cache cold under the lock runs refresh(), which fails on
\* the store or the credentials or sends a new exchange; and a call that
\* returns the cached token returns one whose expiry is strictly after now.
C30_FailedRefreshLeavesCache ==
    /\ [][\A c \in Callers :
            (/\ tpc[c] \in {"locking", "refreshing"}
             /\ \/ tpc'[c] = "done" /\ tret'[c].kind = "error"
                \/ tpc'[c] = "refreshing")
            => UNCHANGED <<accessToken, accessExpiry>>]_vars
    /\ [][\A c \in Callers :
            (tpc[c] = "locking" /\ tpc'[c] # "locking" /\ ~CacheValid)
            => /\ trefreshed'[c] = trefreshed[c] + 1
               /\ \/ /\ tpc'[c] = "done"
                     /\ tret'[c].kind = "error"
                     /\ tret'[c].err \in {"notAuthenticated:store", "notAuthenticated",
                                          "readCredentials"}
                     /\ exchanges' = exchanges
                  \/ /\ tpc'[c] = "refreshing"
                     /\ store.present /\ store.refreshToken # 0
                     /\ exchanges' = exchanges + 1]_vars
    /\ [][\A c \in Callers :
            (tpc[c] = "locking" /\ tpc'[c] = "done" /\ tret'[c].kind = "token")
            => /\ accessToken # 0 /\ now < accessExpiry
               /\ tret'[c] = TokenReturn(accessToken, accessExpiry)
               /\ UNCHANGED <<accessToken, accessExpiry, exchanges>>]_vars

\* The exchange of one caller has failed, and a later caller, finding the
\* cache cold, has sent the next exchange.
C30_Witness ==
    \E c, d \in Callers :
        /\ tpc[c] = "done" /\ tret[c] = ErrorReturn("refreshToken")
        /\ tpc[d] = "refreshing" /\ mu = d
        /\ exchanges = 2
        /\ wfail

-----------------------------------------------------------------------------
(* Properties of the circuit breaker, checked under SpecCB *)

\* C3: counting RecordFailure() calls from a closed breaker with failure count
\* 0 (no RecordSuccess in between), the breaker is closed and IsOpen() answers
\* false after each of the first 4 calls, and the breaker is open from the 5th
\* call on: it opens when, and only when, the count reaches the threshold 5.
C3_OpensAtFifthFailure ==
    /\ open <=> cbRun >= 5
    /\ cbOp = "IsOpen" => (cbRet <=> cbRun >= 5)
    /\ (cbOp = "RecordFailure" /\ ~cbWas.open) => (open <=> cbRun = 5)

\* The 5th consecutive failure has just opened the breaker.
C3_Witness ==
    cbOp = "RecordFailure" /\ cbRun = 5 /\ ~cbWas.open /\ open

\* C4: RecordSuccess(), called in any reachable state, leaves the breaker
\* closed with failure count 0, so that the count of consecutive failures
\* starts again from 0.
C4_SuccessResets ==
    cbOp = "RecordSuccess" => (failures = 0 /\ ~open /\ cbRun = 0)

\* RecordSuccess() has just been called on an open breaker.
C4_Witness ==
    cbOp = "RecordSuccess" /\ cbWas.open /\ cbWas.failures >= 5

\* C5: an IsOpen() query on an open breaker returns true, and changes nothing,
\* as long as no more than 30 seconds have elapsed since the last recorded
\* failure; once more than 30 seconds have elapsed it returns false and leaves
\* the breaker closed with failure count 0.  The breaker goes from open to
\* closed only in an IsOpen() query or a RecordSuccess() call.
C5_CooldownOnQuery ==
    /\ (cbOp = "IsOpen" /\ cbWas.open) =>
          IF now - lastFailure <= 30
          THEN cbRet /\ open /\ failures = cbWas.failures
          ELSE ~cbRet /\ ~open /\ failures = 0
    /\ (cbWas.open /\ ~open) => cbOp \in {"IsOpen", "RecordSuccess"}

\* An IsOpen() query has just closed an open breaker after the cooldown.
C5_Witness ==
    cbOp = "IsOpen" /\ cbWas.open /\ ~cbRet /\ now - lastFailure > 30

\* C19: RecordFailure() returns true only on the call that takes the failure
\* count from 4 to 5, and returns false whenever it finds the breaker open.
C19_TrueOnlyOnCrossing ==
    cbOp = "RecordFailure" =>
        /\ cbRet => cbWas.failures = CircuitBreakerThreshold - 1
        /\ cbWas.open => ~cbRet

\* C27: whatever RecordSuccess, RecordFailure and IsOpen calls have been made,
\* in whatever order and at whatever times, the breaker is open exactly when
\* its failure count is at least CircuitBreakerThreshold.
C27_OpenIffThreshold == open <=> failures >= CircuitBreakerThreshold

\* IsOpen() has just closed an open breaker whose cooldown had elapsed.
C27_Witness ==
    /\ cbOp = "IsOpen" /\ cbWas.open /\ cbWas.failures >= CircuitBreakerThreshold
    /\ ~open /\ failures = 0

-----------------------------------------------------------------------------
(* Properties of the retrying transport, checked under SpecRT *)

Count429 == Cardinality({i \in 1..Len(rtStatuses) : rtStatuses[i] = 429})
OriginalBody == IF req.hasBody THEN BodyData ELSE <<>>

\* C6: when the breaker reports open at the start of RoundTrip (it is open and
\* no more than 30 s have passed since the last failure), the call returns
\* CircuitBreakerError without a single send and leaves the failure count and
\* the time of the last failure as they were; CircuitBreakerError is returned
\* in no other case.
C6_OpenBreakerFailsFast ==
    /\ (rtPc # "idle" /\ rtWas.open /\ rtWas.at - rtWas.lastFailure <= 30) =>
          /\ rtPc = "done"
          /\ rtResult = ErrResult("circuitBreaker")
          /\ rtStatuses = <<>>
          /\ failures = rtWas.failures
          /\ lastFailure = rtWas.lastFailure
    /\ rtResult.err = "circuitBreaker" =>
          /\ rtWas.open /\ rtWas.at - rtWas.lastFailure <= 30
          /\ rtStatuses = <<>>

\* A RoundTrip has just failed fast on the open breaker.
C6_Witness ==
    rtPc = "done" /\ rtResult.err = "circuitBreaker" /\ rtWas.failures >= 5

\* C7: when the first response of a RoundTrip is 429 with Retry-After: N
\* (delta-seconds), the call sleeps N seconds, no more and no less, before it
\* sends again; when the next response is below 400 the call ends there, after
\* exactly one retry, and both sends carried the whole original body.
C7_RetryAfterHonoured ==
    (Len(rtStatuses) >= 1 /\ rtStatuses[1] = 429
        /\ rtFirstRA.kind = "seconds" /\ rtFirstRA.val >= 0) =>
       /\ (Len(rtStatuses) = 1 /\ rtFirstRA.val > 0) =>
             \/ rtPc = "sleep429" /\ wakeAt = rtWas.at + rtFirstRA.val
             \/ rtPc = "send" /\ now = rtWas.at + rtFirstRA.val
             \/ rtPc = "done" /\ rtResult = ErrResult("sleepInterrupted")
             \/ rtPc = "done" /\ rtResult = ErrResult("resetBody")
       /\ Len(rtStatuses) = 2 => rtSendAt = rtWas.at + rtFirstRA.val
       /\ (Len(rtStatuses) >= 2 /\ rtStatuses[2] # 0 /\ rtStatuses[2] < 400) =>
             /\ Len(rtStatuses) = 2
             /\ rtPc = "done"
             /\ rtResult.kind = "response" /\ rtResult.status = rtStatuses[2]
             /\ rtBodies = {OriginalBody}

\* A call with a body got 429 with Retry-After: 2, then 200.
C7_Witness ==
    /\ rtPc = "done"
    /\ rtStatuses = <<429, 200>>
    /\ rtFirstRA = [kind |-> "seconds", val |-> 2]
    /\ req.hasBody
    /\ now = rtWas.at + 2

\* C8 as stated: the third 429 response of a RoundTrip is the last send of
\* the call.
C8_ThreeExhaust ==
    (Len(rtStatuses) >= 3 /\ \A i \in 1..3 : rtStatuses[i] = 429) =>
        Len(rtStatuses) = 3

\* C8, amended: with the default limits a RoundTrip retries a 429 three times,
\* so the fourth 429 response exhausts the retries: no further request is sent
\* and the caller receives that 429 as a response, not as an error; a 429
\* response is returned to the caller in no other case.
C8_FourthExhausts ==
    /\ Count429 <= 4
    /\ Count429 = 4 =>
          /\ rtPc = "done"
          /\ rtResult.kind = "response" /\ rtResult.status = 429
          /\ rtStatuses[Len(rtStatuses)] = 429
    /\ (rtResult.kind = "response" /\ rtResult.status = 429) => Count429 = 4
    /\ (Len(rtStatuses) = 3 /\ \A i \in 1..3 : rtStatuses[i] = 429) =>
          \/ rtPc \in {"sleep429", "send"}
          \/ rtResult.kind = "error"

\* Four 429 responses in a row: the call has returned the fourth.
C8_Witness ==
    /\ rtPc = "done"
    /\ rtStatuses = <<429, 429, 429, 429>>
    /\ rtResult.kind = "response" /\ rtResult.status = 429

Count5xx == Cardinality({i \in 1..Len(rtStatuses) : rtStatuses[i] >= 500})

\* cb.failures once the IsOpen() at the start of the call has returned false
FailuresAtStart == IF rtWas.open THEN 0 ELSE rtWas.failures

\* C20: within one RoundTrip every response of 500 or more records one breaker
\* failure, no more and no less; the first of them is followed by a sleep of
\* 2 s and one resend, and the second is returned to the caller as a response,
\* not as an error, with no further send.
C20_ServerErrorRetriedOnce ==
    LET n == Len(rtStatuses) IN
    /\ (/\ rtPc # "idle"
        /\ rtResult.err # "circuitBreaker"
        /\ \A i \in 1..n : rtStatuses[i] \notin 1..399)
          => failures = FailuresAtStart + Count5xx
    /\ Count5xx <= 2
    /\ Count5xx = 2 =>
          /\ rtPc = "done"
          /\ rtStatuses[n] >= 500
          /\ rtResult.kind = "response" /\ rtResult.status = rtStatuses[n]
    /\ (Count5xx = 1 /\ rtStatuses[n] >= 500) =>
          /\ lastFailure = rtSendAt
          /\ \/ rtPc = "sleep5xx" /\ wakeAt = rtSendAt + 2
             \/ rtPc = "send" /\ now >= rtSendAt + 2
             \/ rtPc = "done" /\ rtResult = ErrResult("sleepInterrupted")
             \/ rtPc = "done" /\ rtResult = ErrResult("resetBody")

\* A 500, a resend 2 s later and a second 500: the call has returned it, and
\* the breaker holds two failures more.
C20_Witness ==
    /\ rtPc = "done"
    /\ rtStatuses = <<500, 500>>
    /\ rtResult.kind = "response" /\ rtResult.status = 500
    /\ ~rtWas.open
    /\ failures = rtWas.failures + 2
    /\ now = rtWas.at + 2

\* C21: a response of 400 to 499 other than 429 ends the RoundTrip at once: it
\* is the result of the call and nothing is sent after it; and no response of
\* 400 to 499, 429 included, changes the failure count, the time of the last
\* failure or the open flag of the breaker.
C21_ClientErrorsLeaveBreaker ==
    /\ [][(/\ Len(rtStatuses') = Len(rtStatuses) + 1
           /\ rtStatuses'[Len(rtStatuses')] \in 400..499)
          => /\ failures' = failures
             /\ lastFailure' = lastFailure
             /\ open' = open
             /\ rtStatuses'[Len(rtStatuses')] # 429 =>
                   /\ rtPc' = "done"
                   /\ rtResult'.kind = "response"
                   /\ rtResult'.status = rtStatuses'[Len(rtStatuses')]]_vars
    /\ [](\A i \in 1..Len(rtStatuses) :
             (rtStatuses[i] \in 400..499 /\ rtStatuses[i] # 429) =>
                 i = Len(rtStatuses) /\ rtPc = "done")

\* A 500, a resend and a 404: the call has returned the 404, and the breaker
\* holds the failure of the 500, neither one more nor none.
C21_Witness ==
    /\ rtPc = "done"
    /\ rtStatuses = <<500, 404>>
    /\ rtResult.kind = "response" /\ rtResult.status = 404
    /\ ~rtWas.open
    /\ failures = rtWas.failures + 1
    /\ lastFailure = rtWas.at

\* C22: when a send of a RoundTrip fails on the underlying transport, be it
\* the first send or a resend, the call returns an error and no response at
\* once, sends nothing further, and leaves the failure count, the time of the
\* last failure and the open flag of the breaker as they were.
C22_TransportErrorEndsCall ==
    /\ [][(/\ Len(rtStatuses') = Len(rtStatuses) + 1
           /\ rtStatuses'[Len(rtStatuses')] = 0)
          => /\ rtPc' = "done"
             /\ rtResult'.kind = "error"
             /\ rtResult'.err = "roundTrip"
             /\ failures' = failures
             /\ lastFailure' = lastFailure
             /\ open' = open]_vars
    /\ [](\A i \in 1..Len(rtStatuses) :
             rtStatuses[i] = 0 =>
                 /\ i = Len(rtStatuses)
                 /\ rtPc = "done"
                 /\ rtResult.kind = "error")

\* The resend after a 500 failed on the transport: the call has returned the
\* error, and the breaker holds the one failure of the 500.
C22_Witness ==
    /\ rtPc = "done"
    /\ rtStatuses = <<500, 0>>
    /\ rtResult.kind = "error" /\ rtResult.err = "roundTrip"
    /\ ~rtWas.open
    /\ failures = rtWas.failures + 1
    /\ lastFailure = rtWas.at

\* The responses of the call so far are all of 500 and more.
Only5xx == \A i \in 1..Len(rtStatuses) : rtStatuses[i] >= 500

\* The breaker reported open at the start of the call.
StartedOpen == rtWas.open /\ rtWas.at - rtWas.lastFailure <= CircuitBreakerResetTime

\* C28: the breaker is asked at the start of RoundTrip and nowhere else.  A
\* call that starts on a closed breaker and gets only responses of 500 and
\* more returns its second response after 2 sends, with 2 failures more on the
\* breaker: from 0 failures the calls end at 2, at 4 and at 6.  In the call
\* that starts at 4 the first response opens the breaker at 5 failures, the
\* call goes on to its sleep and its resend (a call that is about to send
\* sends, open breaker or not) and never returns CircuitBreakerError; the call
\* after it, started within the cooldown, returns CircuitBreakerError without
\* sending.
C28_BreakerAskedOnlyAtStart ==
    /\ [](/\ (/\ rtPc = "done" /\ rtResult.kind = "response"
              /\ ~StartedOpen /\ Only5xx)
             => /\ Len(rtStatuses) = 1 + Max5xxRetries
                /\ failures = FailuresAtStart + 2
                /\ open <=> FailuresAtStart >= CircuitBreakerThreshold - 2
          /\ (/\ rtPc # "idle" /\ ~StartedOpen
              /\ FailuresAtStart = CircuitBreakerThreshold - 1
              /\ Len(rtStatuses) = 1 /\ Only5xx)
             => /\ open /\ failures = CircuitBreakerThreshold
                /\ \/ rtPc \in {"sleep5xx", "send"}
                   \/ rtPc = "done" /\ rtResult \in {ErrResult("sleepInterrupted"),
                                                     ErrResult("resetBody")}
          /\ (rtPc # "idle" /\ ~StartedOpen) => rtResult.err # "circuitBreaker"
          /\ (rtPc # "idle" /\ StartedOpen)
             => /\ rtPc = "done"
                /\ rtResult = ErrResult("circuitBreaker")
                /\ rtStatuses = <<>>
                /\ failures = rtWas.failures /\ open)
    /\ [][(rtPc = "send" /\ ~(req.getBody /\ req.getFails))
            => /\ Len(rtStatuses') = Len(rtStatuses) + 1
               /\ rtResult'.err # "circuitBreaker"]_vars

\* The call that started on a closed breaker with 4 failures has returned its
\* second 500: it was sent while the breaker was open, and the breaker holds
\* 6 failures.
C28_Witness ==
    /\ rtPc = "done" /\ rtResult.kind = "response"
    /\ ~rtWas.open /\ rtWas.failures = CircuitBreakerThreshold - 1
    /\ rtStatuses = <<500, 500>>
    /\ open /\ failures = CircuitBreakerThreshold + 1

-----------------------------------------------------------------------------
(* Properties of the client, checked under SpecClient *)

Count401 == Cardinality({i \in 1..Len(cStatuses) : cStatuses[i] = 401})

\* The operation reaches the server through do (Get, Post, Patch, Delete and
\* the operations built on them); Download has its own loop.
ViaDo == cop.name # "Download"

\* C9: in Client.do every 401 response is followed by exactly one
\* Invalidate(); a 401 on the first attempt starts exactly one more attempt,
\* whose request carries a token fetched after the invalidation; no call makes
\* more than 2 requests, a second request is made only after a 401, a call
\* whose second response is below 400 succeeds (unless the body fails to
\* decode), and a second 401 ends the call with the APIError 401
\* "unauthorized".
C9_RetryOnceOn401 ==
    ViaDo =>
    /\ Len(cSends) <= 2
    /\ Len(cStatuses) <= Len(cSends)
    /\ cInval = Count401
    /\ Len(cSends) = 2 => (cStatuses[1] = 401 /\ cSends[2] > cSends[1])
    /\ (Len(cStatuses) = 1 /\ cStatuses[1] = 401) =>
          /\ attempt = 1
          /\ cInval = 1
          /\ cpc = "done" => cret.kind \in {"AuthError", "waitInterrupted", "doRequest"}
    /\ (Len(cStatuses) = 2 /\ cStatuses[2] = 401) =>
          /\ cpc = "done"
          /\ cret.kind = "APIError" /\ cret.status = 401 /\ cret.msg = "unauthorized"
    /\ (Len(cStatuses) = 2 /\ cStatuses[2] < 400) =>
          /\ cpc = "done"
          /\ cret.kind \in {"ok", "decodeResponse"}
          /\ (~cop.hasOut \/ cStatuses[2] = 204) => cret.kind = "ok"

\* A call got 401, then 200, and succeeded with its second request.
C9_Witness ==
    /\ cpc = "done"
    /\ cStatuses = <<401, 200>>
    /\ cret.kind = "ok"
    /\ Len(cSends) = 2
    /\ cInval = 1

\* C10: GetConversation with an ID whose prefix is the known prefix of another
\* resource type ends with WrongResourceTypeError and without a limiter wait, a
\* token fetch or a send.
C10_WrongPrefixFailsLocally ==
    (cpc # "idle" /\ cop.name = "GetConversation"
        /\ ValidateIDPrefix(cop.id, ExtractPrefix(ID_cnv)).wrong) =>
       /\ cpc = "done"
       /\ cret.kind = "WrongResourceTypeError"
       /\ cWaits = 0
       /\ cTokCalls = 0
       /\ cNet = 0

\* C11: the result of Client.do is made from the status of the final response
\* it received: 404 gives the APIError 404 "not found"; 429 gives a
\* RateLimitError with the Retry-After header as an integer of seconds, 0 when
\* the header is absent or no integer; every other status >= 400 (401 apart)
\* gives an APIError with that status, its status text and the body as it was
\* read; a status below 400 gives success, or the decode error when there is a
\* body to decode.
C11_StatusMapping ==
    (ViaDo /\ cpc = "done" /\ cFinal.status # 0) =>
       LET st == cFinal.status IN
       /\ st = cStatuses[Len(cStatuses)]
       /\ st # 401
       /\ st = 404 =>
             /\ cret.kind = "APIError" /\ cret.status = 404
             /\ cret.msg = "not found"
       /\ st = 429 =>
             /\ cret.kind = "RateLimitError"
             /\ cret.retryAfter = IF cFinal.ra.kind = "seconds" THEN cFinal.ra.val ELSE 0
       /\ (st >= 400 /\ st \notin {401, 404, 429}) =>
             /\ cret.kind = "APIError" /\ cret.status = st
             /\ st = 500 => cret.msg = "Internal Server Error"
             /\ cret.details = cFinal.body
       /\ st < 400 =>
             /\ cret.kind \in {"ok", "decodeResponse"}
             /\ cret.kind = "decodeResponse" => (cop.hasOut /\ st # 204)

\* A call ended on a 500 response with the body "{}".
C11_Witness ==
    /\ cpc = "done"
    /\ cFinal.status = 500 /\ cFinal.body = <<123, 125>>
    /\ cret.kind = "APIError" /\ cret.status = 500
    /\ cret.details = <<123, 125>>

\* C16: when Token() returns an error, on the first or on the second attempt,
\* do returns at once an AuthError wrapping that error: nothing is sent on that
\* attempt, Token() is not called again, and the call does nothing further.
C16_TokenErrorEndsCall ==
    /\ [][(/\ cpc = "tokenWait"
           /\ tpc[ClientCaller] = "done"
           /\ tret[ClientCaller].kind = "error")
          => /\ cpc' = "done"
             /\ cret'.kind = "AuthError"
             /\ cret'.cause = tret[ClientCaller].err
             /\ cSends' = cSends
             /\ cNet' = cNet
             /\ cStatuses' = cStatuses
             /\ cTokCalls' = cTokCalls
             /\ cWaits' = cWaits
             /\ attempt' = attempt]_vars
    /\ [][~(cpc = "done" /\ cret.kind = "AuthError")]_vars

\* Token() failed on the second attempt, after a 401 and an Invalidate(): the
\* call has ended with the AuthError of the failed exchange and one request sent.
C16_Witness ==
    /\ cpc = "done"
    /\ cret.kind = "AuthError"
    /\ cret.cause = "refreshToken"
    /\ attempt = 1
    /\ cTokCalls = 2
    /\ Len(cSends) = 1
    /\ cStatuses = <<401>>

\* A path holding ".." or a control character (below 0x20, or 0x7f)
PathUnsafe(path) ==
    \/ \E i \in 1..(Len(path) - 1) : path[i] = Dot /\ path[i + 1] = Dot
    \/ \E i \in 1..Len(path) : path[i] < 32 \/ path[i] = 127

-----------------------------------------------------------------------------
(* Properties of the rate limiter, checked under SpecLimiter *)

\* The last Wait has read the limiter: its snapshot is that of the call.
WaitEntered == cpc \in {"waiting", "token", "done"} /\ cWaits > 0

\* remaining + the burst credit Wait borrows, for the limiter the last Wait found
EffectiveWas ==
    LET half == cWaitWas.limit \div 2
        b == cWaitWas.burstRemaining
    IN  cWaitWas.remaining + (IF b <= 0 THEN 0 ELSE IF b < half THEN b ELSE half)

\* C12: a Wait that finds limit <= 0 or no reset instant returns nil at the
\* instant it was called, whatever remaining and burst-remaining are; so does
\* every Wait on a limiter no response has updated.
C12_UnprimedNeverBlocks ==
    /\ (WaitEntered /\ (cWaitWas.limit <= 0 \/ ~cWaitWas.resetAt.set)) =>
          /\ cpc = "token"
          /\ cWaitEnd = cWaitWas.at
    /\ (WaitEntered /\ [k \in {"limit", "remaining", "burstRemaining", "resetAt"} |->
                          cWaitWas[k]]
                       = [limit |-> 0, remaining |-> 0, burstRemaining |-> 0,
                          resetAt |-> ZeroTime]) => cpc = "token"

\* A Wait returned at once although the window was used up and its reset lay
\* ahead: the limit was 0.
C12_Witness ==
    /\ cpc = "token"
    /\ cWaits > 0
    /\ cWaitWas.limit = 0
    /\ cWaitWas.resetAt.set /\ cWaitWas.resetAt.at > cWaitWas.at
    /\ cWaitWas.remaining = 1 /\ cWaitWas.burstRemaining = 0
    /\ cWaitEnd = cWaitWas.at

\* C13: a Wait that finds limit > 0, a reset instant and an effective
\* remaining of at most 1 sets its timer to the reset instant and, when it is
\* not cancelled, returns no earlier than that instant.
C13_LastUnitWaitsForReset ==
    (WaitEntered /\ cWaitWas.limit > 0 /\ cWaitWas.resetAt.set /\ EffectiveWas <= 1) =>
       /\ cpc = "waiting" => cWakeAt = cWaitWas.resetAt.at
       /\ cpc = "token" => cWaitEnd >= cWaitWas.resetAt.at
       /\ (cpc = "token" /\ cWaitWas.resetAt.at > cWaitWas.at) =>
             cWaitEnd > cWaitWas.at

\* With remaining = 1 and burst-remaining = 0 a Wait slept until the reset
\* instant, which lay ahead when it was called.
C13_Witness ==
    /\ cpc = "token"
    /\ cWaits > 0
    /\ cWaitWas.limit > 0
    /\ cWaitWas.remaining = 1 /\ cWaitWas.burstRemaining = 0
    /\ cWaitWas.resetAt.set /\ cWaitWas.resetAt.at > cWaitWas.at
    /\ cWaitEnd = cWaitWas.resetAt.at

\* C23: a Wait that finds limit > 0, a reset instant and an effective
\* remaining above 1 (remaining plus the burst credit, which is the smaller
\* of burst-remaining and limit/2 and never below 0) sets its timer to the
\* time until the reset divided by the effective remaining, the quotient
\* truncated; it returns at once when the quotient is <= 0; and the sleep is
\* never longer than the time until the reset.
C23_IntervalSpacing ==
    (WaitEntered /\ cWaitWas.limit > 0 /\ cWaitWas.resetAt.set /\ EffectiveWas > 1) =>
       LET until == cWaitWas.resetAt.at - cWaitWas.at
           q == IF until >= 0 THEN until \div EffectiveWas
                ELSE 0 - ((0 - until) \div EffectiveWas)
       IN  /\ EffectiveWas - cWaitWas.remaining \in 0..(cWaitWas.limit \div 2)
           /\ q <= 0 => cpc = "token" /\ cWaitEnd = cWaitWas.at
           /\ q > 0 =>
                /\ q <= until
                /\ cpc = "waiting" => cWakeAt = cWaitWas.at + q
                /\ cpc = "token" => cWaitEnd >= cWaitWas.at + q

\* With limit 4, remaining 1 and burst-remaining 3 a Wait borrowed 2, found
\* the reset 3 s ahead and has its timer set 1 s ahead.
C23_Witness ==
    /\ cpc = "waiting"
    /\ cWaitWas.limit = 4 /\ cWaitWas.remaining = 1 /\ cWaitWas.burstRemaining = 3
    /\ EffectiveWas = 3
    /\ cWaitWas.resetAt.set /\ cWaitWas.resetAt.at = cWaitWas.at + 3
    /\ cWakeAt = cWaitWas.at + 1

-----------------------------------------------------------------------------
(* The sleep of the limiter cancelled within do, checked under SpecClient *)

\* C18: when the context is cancelled while Wait sleeps, until the reset
\* instant or for its interval, Wait returns the error wrapping ctx.Err() and
\* not nil: do returns that error, having fetched no token and sent no request
\* after it, the limiter is as Wait found it, and the call does nothing further.
C18_CancelledWaitEndsCall ==
    /\ [][(cpc = "waiting" /\ cpc' # "waiting" /\ now < cWakeAt /\ now' = now)
          => /\ cpc' = "done"
             /\ cret'.kind = "waitInterrupted"
             /\ cret'.cause = "ctx"
             /\ limiter' = limiter
             /\ cTokCalls' = cTokCalls
             /\ cSends' = cSends
             /\ cNet' = cNet]_vars
    /\ [](cret.kind = "waitInterrupted" =>
            /\ cpc = "done"
            /\ cTokCalls = attempt
            /\ Len(cSends) = attempt
            /\ [k \in {"limit", "remaining", "burstRemaining", "resetAt"} |->
                   cWaitWas[k]]
               = [limit |-> limit, remaining |-> remaining,
                  burstRemaining |-> burstRemaining, resetAt |-> resetAt])
    /\ [][~(cpc = "done" /\ cret.kind = "waitInterrupted")]_vars

\* The Wait of the second attempt slept for its interval (the effective
\* remaining was 2) and was cancelled before its timer fired.
C18_Witness ==
    /\ cpc = "done"
    /\ cret.kind = "waitInterrupted"
    /\ attempt = 1
    /\ cWaitWas.limit > 0 /\ cWaitWas.resetAt.set
    /\ EffectiveWas = 2
    /\ cWaitEnd < cWakeAt
    /\ cTokCalls = 1
    /\ cNet = 1

-----------------------------------------------------------------------------
(* Properties of SanitizeID, checked under SpecSanitize *)

\* A white-space or control character, as strings.TrimSpace and the Unicode
\* tables know them (within the first 256 code points)
WhiteOrControl(ch) == IsSpace(ch) \/ ch < Space \/ ch \in Del..159

\* An ID that must not be embedded in a path
Unsafe(t) ==
    \/ t = <<>>
    \/ \E i \in 1..Len(t) : t[i] \in {Slash, Backslash} \/ WhiteOrControl(t[i])
    \/ ContainsDotDot(t)

\* C14: SanitizeID fails exactly for the IDs that, once the surrounding white
\* space is trimmed, are empty or hold a '/', a '\', a ".." or a white-space or
\* control character; any other ID comes back trimmed and otherwise unchanged,
\* so an accepted ID holds no separator and no "..", and SanitizeID returns its
\* own result unchanged.
C14_SanitizeRejectsUnsafe ==
    /\ sanPc # "idle" =>
         LET t == TrimSpace(sanIn)
         IN  /\ sanOut.ok <=> ~Unsafe(t)
             /\ sanOut.ok =>
                  /\ sanOut.id = t
                  /\ \A i \in 1..Len(sanOut.id) : sanOut.id[i] \notin {Slash, Backslash}
                  /\ ~ContainsDotDot(sanOut.id)
    /\ sanPc = "twice" => sanTwice = sanOut

-----------------------------------------------------------------------------
(* Download against do, checked under SpecClient *)

\* C26: a Download that ends on a response ends as do would end on the same
\* response: a 404 as the APIError "not found", a 429 as a RateLimitError, any
\* other status of 400 and more as the APIError of that status; and it sends
\* at most MaxAttempts requests, a second one only after a 401.
C26_DownloadSameErrorsAsDo ==
    (cop.name = "Download" /\ cpc # "idle")
    => /\ Len(cStatuses) <= MaxAttempts
       /\ Len(cStatuses) = MaxAttempts => cStatuses[1] = 401
       /\ (cpc = "done" /\ cFinal # NoResponse /\ cFinal.status >= 400)
          => /\ cret.kind = StatusResult(cFinal, TRUE).kind
             /\ cret.msg = StatusResult(cFinal, TRUE).msg

-----------------------------------------------------------------------------
(* The sends of one RoundTrip and of one call of the client, checked under
   SpecClient *)

\* C29: whatever the underlying transport answers, a RoundTrip has made at
\* most 1 + MaxRateLimitRetries + Max5xxRetries = 5 sends, and after the fifth
\* it has returned: its two retry counters are 0 before its first send, never
\* decrease during the call, stay within 3 and 1, and every send but the
\* first was counted by one of them.  A call of the client makes at most
\* MaxAttempts RoundTrips, so it causes at most 10 sends.
C29_SendsBounded ==
    /\ [](/\ retries429 \in 0..MaxRateLimitRetries
          /\ retries5xx \in 0..Max5xxRetries
          /\ (rtPc = "send" /\ rtStatuses = <<>>) => (retries429 = 0 /\ retries5xx = 0)
          /\ Len(rtStatuses) <= 1 + retries429 + retries5xx
          /\ Len(rtStatuses) <= 1 + MaxRateLimitRetries + Max5xxRetries
          /\ Len(rtStatuses) = 1 + MaxRateLimitRetries + Max5xxRetries => rtPc = "done"
          /\ cNet <= MaxAttempts * (1 + MaxRateLimitRetries + Max5xxRetries))
    /\ [][rtPc \notin {"idle", "done"}
            => (retries429' >= retries429 /\ retries5xx' >= retries5xx)]_vars

\* The second RoundTrip of a call of the client has returned after its fifth
\* send, the tenth of the call.
C29_Witness ==
    /\ cpc = "do" /\ rtPc = "done"
    /\ Len(rtStatuses) = 5
    /\ retries429 = MaxRateLimitRetries /\ retries5xx = Max5xxRetries
    /\ cNet = 10

-----------------------------------------------------------------------------
(* Properties of the mutexes, checked under SpecLocks *)

\* The positions in which a goroutine waits for a timer or for the network
Blocked(p) == lpc[p] \in {"sleep", "send"}

\* The positions in which a goroutine is inside a method of the limiter or of
\* the breaker
InMethod(p) == lpc[p] \in {"lock", "locked", "recLock", "recLocked"}

\* C25: the fields of the limiter and of the breaker are read and written
\* only by a goroutine that holds their mutex; a goroutine that sleeps or has
\* a request on the network, or is outside every call, holds neither mutex;
\* so a goroutine that has entered Wait, UpdateFromHeaders, IsOpen,
\* RecordSuccess or RecordFailure gets through its locked part even when
\* every other goroutine sleeps or waits for the network for ever.
C25_LocksNotHeldAcrossBlocking ==
    /\ [](lacc.res # "none" => lacc.held)
    /\ [](\A p \in Procs :
            (Blocked(p) \/ lpc[p] = "idle") => (rmu # p /\ cbmu # p))
    /\ \A p \in Procs : InMethod(p) ~> ~InMethod(p)

\* One goroutine sleeps in Wait while another, inside UpdateFromHeaders,
\* holds the mutex of the limiter.
C25_Witness ==
    \E p, q \in Procs :
        /\ lcall[p] = "Wait" /\ lpc[p] = "sleep"
        /\ lcall[q] = "UpdateFromHeaders" /\ lpc[q] = "locked"
        /\ rmu = q

====
